---- MODULE Spec2Model ----
(***************************************************************************)
(* Model of the authentication core of GoAhead (src/auth.c): the gate      *)
(* websAuthenticate, the Basic and Digest protocol adapters, the built-in  *)
(* password verifier and the session cache they use, the user and role    *)
(* store with its ability resolver, and websWriteAuthFile.                 *)
(*                                                                         *)
(* C strings are sequences of tokens.  A token is a pair <<tag, payload>>: *)
(* a literal has its text as the tag and an empty payload; the separator   *)
(* ':' is the literal ":"; the result of a hash, of a base64 encoding or   *)
(* of a %x conversion is one token that carries what was converted, so     *)
(* that decoding and splitting are computed, not assumed.                  *)
(***************************************************************************)
EXTENDS Integers, Sequences, FiniteSets, TLC

VARIABLES
    users,      \* static WebsHash users: user name -> [password, roles, abilities]
    sessions,   \* the session store: session id -> [username, referrer]
    secret,     \* static char *secret
    autoLogin,  \* static int autoLogin
    next,       \* static int64 next of createDigestNonce
    now,        \* the value time(0) returns
    req,        \* the request context as websAuthenticate or the login received it
    wp,         \* the request context as websAuthenticate or the login left it
    result,     \* what websAuthenticate or websLoginUser returned: "none", "true",
                \* "false", or "fault" for a call that did not return
    log,        \* the calls websAuthenticate or the login made, in order
    pre,        \* the session store and the nonce counter as the request found them
    roles,      \* static WebsHash roles: role name -> [abilities], in hash order
    hash,       \* the handles the statics users and roles hold
    op,         \* the last operation on the store or the session: name, arguments, return value
    file,       \* the file system websWriteAuthFile works on and its position
    compute,    \* one run of computeUserAbilities: its call stack and its output
    heap        \* the blocks secret has pointed at, the live tables, the actions defined

authVars == <<users, sessions, secret, autoLogin, next, now, req, wp, result, log, pre>>
storeVars == <<roles, hash, file, compute, heap>>
vars == <<authVars, storeVars, op>>

(*************************** bounds of the model ***************************)
MaxSessions == 2
MaxNonces == 1
MaxTick == 1
\* the saves of one behaviour
MaxSaves == 1
\* the Digest challenges of one behaviour of the nonce specification
MaxChallenges == 3

(***************************** program constants ***************************)
NonceLifetime == 300
HTTP_CODE_BAD_REQUEST == 400
HTTP_CODE_UNAUTHORIZED == 401
HTTP_CODE_OK == 200
\* the depth bound of computeAbilities
MaxDepth == 20

(********************************* strings *********************************)
Lit(x) == <<x, <<>>>>
Colon == Lit(":")
S(x) == <<Lit(x)>>
NULL == <<Lit("NULL")>>
BIT_REALM == S("example.com")

\* fmt(buf, size, "%s:%s", a, b)
Fmt2(a, b) == a \o <<Colon>> \o b
\* fmt(buf, size, "%s:%s:%s", a, b, c)
Fmt3(a, b, c) == a \o <<Colon>> \o b \o <<Colon>> \o c
\* fmt(buf, size, "%s:%s:%s:%s:%s:%s", ...)
Fmt6(a, b, c, d, e, f) == Fmt3(a, b, c) \o <<Colon>> \o Fmt3(d, e, f)
\* the %x conversion
Hex(n) == <<<<"hex", <<n>>>>>>

websMD5(s) == <<<<"md5", s>>>>
websEncode64(s) == <<<<"b64", s>>>>
websDecode64(t) == IF Len(t) = 1 /\ t[1][1] = "b64" THEN t[1][2] ELSE NULL
hextoi(s) == IF s # NULL /\ Len(s) = 1 /\ s[1][1] = "hex" THEN s[1][2][1] ELSE 0

\* smatch(a, b): string equality, two null pointers match
smatch(a, b) == a = b

\* The successive results of stok(s, ":", &tok), stok(NULL, ":", &tok), ...
RECURSIVE stokAll(_, _)
stokAll(s, cur) ==
    IF s = <<>>
    THEN (IF cur = <<>> THEN <<>> ELSE <<cur>>)
    ELSE IF Head(s) = Colon
         THEN (IF cur = <<>> THEN <<>> ELSE <<cur>>) \o stokAll(Tail(s), <<>>)
         ELSE stokAll(Tail(s), Append(cur, Head(s)))

Nth(toks, i) == IF i <= Len(toks) THEN toks[i] ELSE NULL

\* strchr(s, ':'): the index of the first ':' of s, 0 when there is none
RECURSIVE strchrColon(_, _)
strchrColon(s, i) ==
    IF i > Len(s) THEN 0
    ELSE IF s[i] = Colon THEN i
    ELSE strchrColon(s, i + 1)

(****************************** the user store *****************************)
\* websLookupUser: the user record is referred to by its key, NULL when absent
websLookupUser(us, username) == IF username \in DOMAIN us THEN username ELSE NULL

(**************************** the ability resolver *************************)
\* a WebsHash of ability names: -1, or a table with its keys
NoHash == [valid |-> FALSE, keys |-> {}]
\* hashCreate(-1) of computeUserAbilities: a new table; its handle is not 0,
\* the tables of websOpenAuth hold the lower handles
hashCreate == [valid |-> TRUE, keys |-> {}]
\* hashEnter(abilities, name, valueInteger(0), 0): a name already there stays
hashEnter(h, name) == IF h.valid THEN [h EXCEPT !.keys = @ \cup {name}] ELSE h

\* the delimiters of stok(roles, " \t,", &tok)
RoleDelims == {Lit(" "), Lit("\t"), Lit(",")}

\* The successive results of stok(s, " \t,", &tok), stok(NULL, " \t,", &tok), ...
RECURSIVE stokRoles(_, _)
stokRoles(s, cur) ==
    IF s = <<>>
    THEN (IF cur = <<>> THEN <<>> ELSE <<cur>>)
    ELSE IF Head(s) \in RoleDelims
         THEN (IF cur = <<>> THEN <<>> ELSE <<cur>>) \o stokRoles(Tail(s), <<>>)
         ELSE stokRoles(Tail(s), Append(cur, Head(s)))

\* the guard left out
DepthUnchecked(depth) == FALSE
\* if (depth > 20)
DepthExceeded(depth) == depth > MaxDepth
\* hashLookup(roles, role) != 0
RoleDefined(rs, role) == role \in DOMAIN rs
\* error("Recursive ability definition for %s", role)
RecursionError(acc, role) == [acc EXCEPT !.errors = @ \cup {role}]
\* the else branch without its hashEnter
TerminalDropped(acc, role) == acc
\* hashEnter(abilities, role, valueInteger(0), 0) of the else branch
Terminal(acc, role) == [acc EXCEPT !.abilities = hashEnter(@, role)]

\* computeAbilities(abilities, role, depth) on the role table rs with handle
\* rh; acc is the table abilities and the errors logged so far.  The loop
\* passes ++depth: the depth of the k-th ability of a role is depth + k.
RECURSIVE computeAbilities(_, _, _, _, _)
RECURSIVE expandRole(_, _, _, _, _, _)
computeAbilities(acc, rs, rh, role, depth) ==
    IF DepthExceeded(depth) THEN RecursionError(acc, role)
    ELSE IF rh < 0 THEN acc
    ELSE IF RoleDefined(rs, role)
         THEN expandRole(acc, rs, rh, rs[role].abilities, 1, depth)
         ELSE Terminal(acc, role)

\* the for loop over rp->abilities, from its i-th key on
expandRole(acc, rs, rh, abl, i, depth) ==
    IF i > Len(abl) THEN acc
    ELSE expandRole(computeAbilities(acc, rs, rh, abl[i], depth + 1),
                    rs, rh, abl, i + 1, depth + 1)

\* the for loop of computeUserAbilities over the tokens of user->roles
RECURSIVE computeTokens(_, _, _, _)
computeTokens(acc, rs, rh, toks) ==
    IF toks = <<>> THEN acc
    ELSE computeTokens(computeAbilities(acc, rs, rh, Head(toks), 0), rs, rh, Tail(toks))

\* computeUserAbilities(user): the user record with its new table, and the
\* errors logged
computeUserAbilities(user, rs, rh) ==
    LET acc == computeTokens([abilities |-> hashCreate, errors |-> {}], rs, rh,
                             stokRoles(user.roles, <<>>))
    IN [user |-> [user EXCEPT !.abilities = acc.abilities], errors |-> acc.errors]

(**************************** the store operations *************************)
\* sclone(s): a copy of s, the empty string for a null pointer
sclone(s) == IF s = NULL THEN <<>> ELSE s

createUser(username, password, rl) ==
    [password |-> sclone(password), roles |-> sclone(rl), abilities |-> NoHash]

\* websAddUser without the lookup: a user of that name is replaced
websAddUserOverwrite(us, username, password, rl) ==
    IF username = NULL THEN [ret |-> 0, users |-> us]
    ELSE [ret |-> 1,
          users |-> [u \in DOMAIN us \cup {username} |->
                        IF u = username THEN createUser(username, password, rl)
                        ELSE us[u]]]

\* websAddUser: ret 1 for the new user, 0 for a null pointer
websAddUser(us, username, password, rl) ==
    IF username = NULL THEN [ret |-> 0, users |-> us]
    ELSE IF websLookupUser(us, username) # NULL THEN [ret |-> 0, users |-> us]
    ELSE [ret |-> 1,
          users |-> [u \in DOMAIN us \cup {username} |->
                        IF u = username THEN createUser(username, password, rl)
                        ELSE us[u]]]

\* websRemoveUser: the return value of hashDelete, -1 for a name not there
websRemoveUser(us, username) ==
    IF username \in DOMAIN us
    THEN [ret |-> 0, users |-> [u \in DOMAIN us \ {username} |-> us[u]]]
    ELSE [ret |-> -1, users |-> us]

\* websSetUserRoles without its call of computeUserAbilities
websSetUserRolesStale(us, rs, rh, username, rl) ==
    IF websLookupUser(us, username) = NULL THEN [ret |-> -1, users |-> us]
    ELSE [ret |-> 0, users |-> [us EXCEPT ![username].roles = sclone(rl)]]

websSetUserRoles(us, rs, rh, username, rl) ==
    IF websLookupUser(us, username) = NULL THEN [ret |-> -1, users |-> us]
    ELSE [ret |-> 0,
          users |-> [us EXCEPT ![username] =
                        computeUserAbilities([@ EXCEPT !.roles = sclone(rl)], rs, rh).user]]

\* websComputeAllUserAbilities: if (users) tests the handle against 0
websComputeAllUserAbilities(us, uh, rs, rh) ==
    IF uh # 0
    THEN [u \in DOMAIN us |-> computeUserAbilities(us[u], rs, rh).user]
    ELSE us

\* websAddRole: ret 1 for the new role, 0 for a null pointer
websAddRole(rs, name, abilities) ==
    IF name = NULL THEN [ret |-> 0, roles |-> rs]
    ELSE IF name \in DOMAIN rs THEN [ret |-> 0, roles |-> rs]
    ELSE [ret |-> 1,
          roles |-> [r \in DOMAIN rs \cup {name} |->
                        IF r = name THEN [abilities |-> abilities] ELSE rs[r]]]

\* websRemoveRole without its hashDelete
websRemoveRoleKept(rs, rh, name) ==
    IF rh # 0
    THEN IF name \notin DOMAIN rs THEN [ret |-> -1, roles |-> rs]
         ELSE [ret |-> 0, roles |-> rs]
    ELSE [ret |-> -1, roles |-> rs]

\* websRemoveRole: if (roles) tests the handle against 0
websRemoveRole(rs, rh, name) ==
    IF rh # 0
    THEN IF name \notin DOMAIN rs THEN [ret |-> -1, roles |-> rs]
         ELSE [ret |-> 0, roles |-> [r \in DOMAIN rs \ {name} |-> rs[r]]]
    ELSE [ret |-> -1, roles |-> rs]

(***************************** websWriteAuthFile ***************************)
Comma == Lit(",")

\* the keys of a hash table in the order hashFirst and hashNext visit them
RECURSIVE hashKeys(_)
hashKeys(K) ==
    IF K = {} THEN <<>>
    ELSE LET k == CHOOSE x \in K : TRUE IN <<k>> \o hashKeys(K \ {k})

\* fprintf(fp, "%s,", ap->name.value.string) for every ability of the role
RECURSIVE abilityList(_)
abilityList(abl) ==
    IF abl = <<>> THEN <<>>
    ELSE Head(abl) \o <<Comma>> \o abilityList(Tail(abl))

\* fprintf(fp, "role name=%s abilities=", ...), the abilities, '\n'
roleLine(name, role) ==
    <<Lit("role name=")>> \o name \o <<Lit(" abilities=")>> \o abilityList(role.abilities)

\* the user line with user->roles and user->password in each other's place
userLineSwapped(name, user) ==
    <<Lit("user name=")>> \o name \o <<Lit(" password=")>> \o user.roles
        \o <<Lit(" roles=")>> \o user.password

\* fprintf(fp, "user name=%s password=%s roles=%s", ...), '\n'
userLine(name, user) ==
    <<Lit("user name=")>> \o name \o <<Lit(" password=")>> \o user.password
        \o <<Lit(" roles=")>> \o user.roles

\* fprintf(fp, "#\n#   %s - Authorization data\n#\n\n", basename(path))
headerLines(path) ==
    << S("#"), <<Lit("#   ")>> \o path \o <<Lit(" - Authorization data")>>, S("#"), <<>> >>

\* what websWriteAuthFile writes to the temp file, line by line
authFileText(us, uh, rs, rh, path) ==
    LET rk == hashKeys(DOMAIN rs)
        uk == hashKeys(DOMAIN us)
    IN headerLines(path)
       \o (IF rh >= 0
           THEN [i \in 1..Len(rk) |-> roleLine(rk[i], rs[rk[i]])] \o << <<>> >>
           ELSE <<>>)
       \o (IF uh >= 0
           THEN [i \in 1..Len(uk) |-> userLine(uk[i], us[uk[i]])]
           ELSE <<>>)

\* the content of a path that names no file
NoFile == << S("ENOENT") >>

(**************************** the session store ****************************)
NoSession == 0
SessionIds == 1..MaxSessions

\* websGetSession(wp, 0): the session the request's cookie names, if any
websGetSession(w, ss) == IF w.cookie \in DOMAIN ss THEN w.cookie ELSE NoSession

\* websGetSession(wp, 1): the request's session, created when there is none;
\* NoSession when the store is full
websCreateSession(w, ss) ==
    IF websGetSession(w, ss) # NoSession
    THEN [id |-> websGetSession(w, ss), sessions |-> ss]
    ELSE IF SessionIds \ DOMAIN ss = {}
         THEN [id |-> NoSession, sessions |-> ss]
         ELSE LET id == CHOOSE i \in SessionIds \ DOMAIN ss :
                            \A j \in SessionIds \ DOMAIN ss : i <= j
              IN [id |-> id,
                  sessions |-> [i \in DOMAIN ss \cup {id} |->
                                   IF i = id THEN [username |-> NULL, referrer |-> NULL]
                                   ELSE ss[i]]]

\* websGetSessionVar(wp, WEBS_SESSION_USERNAME, 0)
websGetSessionVar(ss, id) == ss[id].username

\* websSetSessionVar(wp, WEBS_SESSION_USERNAME, value)
websSetSessionVar(ss, id, value) == [ss EXCEPT ![id].username = value]

\* websGetSessionVar(wp, "referrer", 0): 0 when the request has no session or
\* the session has no such variable
websGetSessionVarReferrer(w, ss) ==
    IF websGetSession(w, ss) # NoSession THEN ss[websGetSession(w, ss)].referrer
    ELSE NULL

\* websGetVar(wp, name, defaultValue) on the decoded form variables
websGetVar(w, name, defaultValue) ==
    LET hit == SelectSeq(w.vars, LAMBDA kv : kv[1] = name) IN
    IF hit = <<>> THEN defaultValue ELSE hit[1][2]

(****************************** the responses ******************************)
websError(w, code) == [w EXCEPT !.code = code]
websRedirectByStatus(w, code) == [w EXCEPT !.code = code]
\* websRedirect(wp, uri): 302 with the location uri
websRedirect(w, uri) == [w EXCEPT !.code = 302, !.redirect = uri]

(***************************** Basic adapter *******************************)
basicLogin(w) ==
    [w EXCEPT !.authResponse = S("Basic realm=\"") \o BIT_REALM \o S("\"")]

parseBasicDetails(w) ==
    LET userAuth == websDecode64(w.authDetails)
        cp == strchrColon(userAuth, 1)
    IN IF cp # 0
       THEN [ok |-> TRUE,
             wp |-> [w EXCEPT !.username = SubSeq(userAuth, 1, cp - 1),
                              !.password = SubSeq(userAuth, cp + 1, Len(userAuth)),
                              !.encoded = 0]]
       ELSE [ok |-> TRUE,
             wp |-> [w EXCEPT !.username = <<>>, !.password = <<>>]]

(***************************** Digest adapter ******************************)
\* the nonce without the counter field
createDigestNonceNoCounter(sec, t, nx) ==
    websEncode64(Fmt3(sec, BIT_REALM, Hex(t)))

\* fmt(nonce, sizeof(nonce), "%s:%s:%x:%x", secret, BIT_REALM, time(0), next++)
createDigestNonce(sec, t, nx) ==
    websEncode64(Fmt3(sec, BIT_REALM, Hex(t)) \o <<Colon>> \o Hex(nx))

digestLogin(w, sec, t, nx) ==
    [w EXCEPT !.authResponse =
        S("Digest realm=") \o BIT_REALM \o S("domain=") \o S("http://server")
        \o S("qop=auth") \o S("nonce=") \o createDigestNonce(sec, t, nx)
        \o S("opaque=5ccc069c403ebaf9f0171e9517f40e41") \o S("algorithm=MD5")
        \o S("stale=FALSE")]

parseDigestNonce(nonce) ==
    LET decoded == websDecode64(nonce) IN
    IF decoded = NULL
    THEN [secret |-> NULL, realm |-> NULL, when |-> 0]
    ELSE LET toks == stokAll(decoded, <<>>) IN
         [secret |-> Nth(toks, 1), realm |-> Nth(toks, 2),
          when |-> hextoi(Nth(toks, 3))]

\* the switch on the key of one key=value pair of the header
digestField(w, key, value) ==
    CASE key = "cnonce" -> [w EXCEPT !.cnonce = value]
      [] key = "nc" -> [w EXCEPT !.nc = value]
      [] key = "nonce" -> [w EXCEPT !.nonce = value]
      [] key = "opaque" -> [w EXCEPT !.opaque = value]
      [] key = "qop" -> [w EXCEPT !.qop = value]
      [] key = "realm" -> [w EXCEPT !.realm = value]
      [] key = "response" -> [w EXCEPT !.password = value, !.encoded = 1]
      [] key = "uri" -> [w EXCEPT !.digestUri = value]
      [] key \in {"username", "user"} -> [w EXCEPT !.username = value]
      [] OTHER -> w

\* the scan of the header, one key=value pair after the other
RECURSIVE digestScan(_, _)
digestScan(w, kvs) ==
    IF kvs = <<>> THEN w
    ELSE digestScan(digestField(w, Head(kvs)[1], Head(kvs)[2]), Tail(kvs))

\* calcDigest without the qop form: H(HA1:nonce:HA2) always
calcDigestNoQop(w, username, password) ==
    LET ha1 == IF username = NULL THEN password
               ELSE websMD5(Fmt3(username, w.realm, password))
        ha2 == websMD5(Fmt2(w.method, w.digestUri))
    IN websMD5(Fmt3(ha1, w.nonce, ha2))

calcDigest(w, username, password) ==
    LET ha1 == IF username = NULL THEN password
               ELSE websMD5(Fmt3(username, w.realm, password))
        ha2 == websMD5(Fmt2(w.method, w.digestUri))
    IN IF w.qop = S("auth") \/ w.qop = S("auth-int")
       THEN websMD5(Fmt6(ha1, w.nonce, w.nc, w.cnonce, w.qop, ha2))
       ELSE websMD5(Fmt3(ha1, w.nonce, ha2))

\* smatch(secret, secret): both names are the local of parseDigestDetails
NonceSecretMatches(nsecret, sec) == smatch(nsecret, nsecret)
\* the realm check left out
NonceRealmUnchecked(nrealm) == TRUE
NonceRealmMatches(nrealm) == smatch(nrealm, BIT_REALM)
QopIsAuth(qop) == smatch(qop, S("auth"))
NonceIsStale(when, t) == (when + NonceLifetime) < t
DigestFieldsMissing(w) ==
    \/ w.username = NULL \/ w.realm = NULL \/ w.nonce = NULL \/ w.password = NULL
    \/ (w.qop # NULL /\ (w.cnonce = NULL \/ w.nc = NULL))

parseDigestDetails(w0, us, sec, t) ==
    LET w1 == digestScan(w0, w0.authDetails) IN
    IF DigestFieldsMissing(w1) THEN [ok |-> FALSE, wp |-> w1]
    ELSE
    LET w2 == IF w1.qop = NULL THEN [w1 EXCEPT !.qop = <<>>] ELSE w1
        n == parseDigestNonce(w2.nonce)
    IN IF \/ ~NonceSecretMatches(n.secret, sec)
          \/ ~NonceRealmMatches(n.realm)
          \/ ~QopIsAuth(w2.qop)
          \/ NonceIsStale(n.when, t)
       THEN [ok |-> FALSE, wp |-> w2]
       ELSE
       LET w3 == IF w2.user = NULL
                 THEN [w2 EXCEPT !.user = websLookupUser(us, w2.username)]
                 ELSE w2
       IN IF w3.user = NULL THEN [ok |-> FALSE, wp |-> w3]
          ELSE [ok |-> TRUE,
                wp |-> [w3 EXCEPT !.digest =
                           calcDigest(w3, NULL, us[w3.user].password)]]

(******************************* the verifier ******************************)
\* websVerifyPassword without the MD5(username:realm:password) step
websVerifyPasswordClear(w0, us) ==
    LET w2 == IF w0.user = NULL
              THEN [w0 EXCEPT !.user = websLookupUser(us, w0.username)]
              ELSE w0
    IN IF w2.user = NULL THEN [ok |-> FALSE, wp |-> w2]
       ELSE IF w2.digest # NULL
            THEN [ok |-> smatch(w2.password, w2.digest), wp |-> w2]
            ELSE [ok |-> smatch(w2.password, us[w2.user].password), wp |-> w2]

websVerifyPassword(w0, us) ==
    LET w1 == IF w0.encoded = 0
              THEN [w0 EXCEPT !.password =
                                  websMD5(Fmt3(w0.username, BIT_REALM, w0.password)),
                              !.encoded = 1]
              ELSE w0
        w2 == IF w1.user = NULL
              THEN [w1 EXCEPT !.user = websLookupUser(us, w1.username)]
              ELSE w1
    IN IF w2.user = NULL THEN [ok |-> FALSE, wp |-> w2]
       ELSE IF w2.digest # NULL
            THEN [ok |-> smatch(w2.password, w2.digest), wp |-> w2]
            ELSE [ok |-> smatch(w2.password, us[w2.user].password), wp |-> w2]

(********************************* routes **********************************)
NoHandler == "null"

\* websSetRouteAuth(route, auth); route.verify is set by the route's owner.
\* For a name other than basic and digest auth = 0, and route->authType =
\* sclone(0) is the empty string, not the null pointer.
websSetRouteAuth(route, auth) ==
    IF smatch(auth, S("basic"))
    THEN [route EXCEPT !.authType = auth, !.askLogin = "basicLogin",
                       !.parseAuth = "parseBasicDetails"]
    ELSE IF smatch(auth, S("digest"))
    THEN [route EXCEPT !.authType = auth, !.askLogin = "digestLogin",
                       !.parseAuth = "parseDigestDetails"]
    ELSE [route EXCEPT !.authType = sclone(NULL), !.askLogin = NoHandler,
                       !.parseAuth = NoHandler]

\* (route->parseAuth)(wp): a call through the null pointer does not return
CallParseAuth(w, us, sec, t) ==
    CASE w.route.parseAuth = "parseBasicDetails" -> parseBasicDetails(w)
      [] w.route.parseAuth = "parseDigestDetails" -> parseDigestDetails(w, us, sec, t)
      [] OTHER -> [ok |-> FALSE, wp |-> w]

\* if (route->askLogin) (route->askLogin)(wp): the context and the nonce counter
CallAskLogin(w, sec, t, nx) ==
    CASE w.route.askLogin = "basicLogin" ->
            [wp |-> basicLogin(w), next |-> nx, log |-> <<"askLogin">>]
      [] w.route.askLogin = "digestLogin" ->
            [wp |-> digestLogin(w, sec, t, nx), next |-> nx + 1, log |-> <<"askLogin">>]
      [] OTHER -> [wp |-> w, next |-> nx, log |-> <<>>]

\* (route->verify)(wp): a call through the null pointer does not return
CallVerify(w, us) ==
    CASE w.route.verify = "websVerifyPassword" -> websVerifyPassword(w, us)
      [] OTHER -> [ok |-> FALSE, wp |-> w]

(********************************* the gate ********************************)
\* autoLogin left out of the test
AuthNotRequiredByRoute(route, al) == route.authType = NULL
AuthNotRequired(route, al) == route.authType = NULL \/ al

\* the session is never consulted
SessionUsernameIgnored(w, ss) == NULL

\* the user name the session of the request's cookie holds, NULL when none
SessionUsername(w, ss) ==
    IF w.cookie # 0 /\ websGetSession(w, ss) # NoSession
    THEN websGetSessionVar(ss, websGetSession(w, ss))
    ELSE NULL

\* the protocol check left out
WrongProtocolUnchecked(w) == FALSE
WrongProtocol(w) == w.authType # NULL /\ ~smatch(w.authType, w.route.authType)

UsernameMissing(w) == w.username = NULL \/ w.username = <<>>

\* a challenge that has stored the user name in the session before it refuses
ChallengeAfterStore(w, ss, sec, t, nx, lg) ==
    LET a == CallAskLogin(w, sec, t, nx)
        c == websCreateSession(w, ss)
    IN [ret |-> FALSE,
        wp |-> websRedirectByStatus(a.wp, HTTP_CODE_UNAUTHORIZED),
        sessions |-> IF c.id # NoSession
                     THEN websSetSessionVar(c.sessions, c.id, w.username)
                     ELSE ss,
        next |-> a.next,
        log |-> lg \o a.log \o <<"websRedirectByStatus">>]

\* the challenge: askLogin, then websRedirectByStatus(wp, 401), return 0
Challenge(w, ss, sec, t, nx, lg) ==
    LET a == CallAskLogin(w, sec, t, nx) IN
    [ret |-> FALSE,
     wp |-> websRedirectByStatus(a.wp, HTTP_CODE_UNAUTHORIZED),
     sessions |-> ss, next |-> a.next,
     log |-> lg \o a.log \o <<"websRedirectByStatus">>]

\* the end of the uncached path: the identity goes to the session, return 1
Remember(w, ss, nx, lg) ==
    LET c == websCreateSession(w, ss) IN
    IF c.id # NoSession
    THEN [ret |-> TRUE, wp |-> w,
          sessions |-> websSetSessionVar(c.sessions, c.id, w.username),
          next |-> nx, log |-> lg \o <<"websSetSessionVar">>]
    ELSE [ret |-> TRUE, wp |-> w, sessions |-> ss, next |-> nx, log |-> lg]

\* the body of if (!cached); the log entries parseAuth:null and verify:null
\* are calls through a null pointer, which end the process
Uncached(w, ss, us, sec, t, nx) ==
    IF WrongProtocol(w)
    THEN [ret |-> FALSE, wp |-> websError(w, HTTP_CODE_BAD_REQUEST),
          sessions |-> ss, next |-> nx, log |-> <<"websError">>]
    ELSE
    LET p == IF w.authDetails # NULL
             THEN CallParseAuth(w, us, sec, t)
             ELSE [ok |-> TRUE, wp |-> w]
        lp == IF w.authDetails = NULL THEN <<>>
              ELSE IF w.route.parseAuth = NoHandler THEN <<"parseAuth:null">>
              ELSE IF p.ok THEN <<"parseAuth:1">> ELSE <<"parseAuth:0">>
    IN IF ~p.ok
       THEN [ret |-> FALSE, wp |-> p.wp, sessions |-> ss, next |-> nx, log |-> lp]
       ELSE IF UsernameMissing(p.wp)
       THEN Challenge(p.wp, ss, sec, t, nx, lp)
       ELSE IF w.route.verify = NoHandler
       THEN [ret |-> FALSE, wp |-> p.wp, sessions |-> ss, next |-> nx,
             log |-> lp \o <<"verify:null">>]
       ELSE LET v == CallVerify(p.wp, us) IN
            IF ~v.ok
            THEN Challenge(v.wp, ss, sec, t, nx, lp \o <<"verify:0">>)
            ELSE Remember(v.wp, ss, nx, lp \o <<"verify:1">>)

websAuthenticate(w, ss, us, al, sec, t, nx) ==
    IF AuthNotRequired(w.route, al)
    THEN [ret |-> TRUE, wp |-> w, sessions |-> ss, next |-> nx, log |-> <<>>]
    ELSE IF SessionUsername(w, ss) # NULL
    THEN [ret |-> TRUE,
          wp |-> [w EXCEPT !.username = SessionUsername(w, ss)],
          sessions |-> ss, next |-> nx, log |-> <<>>]
    ELSE Uncached(w, ss, us, sec, t, nx)

(******************************** form login *******************************)
\* websLoginUser(wp, username, password): the return value, the context, the
\* session store and the calls made
websLoginUser(w, ss, us, username, password) ==
    IF w.route.verify = NoHandler
    THEN [ret |-> FALSE, wp |-> w, sessions |-> ss, log |-> <<>>]
    ELSE LET w1 == [w EXCEPT !.username = sclone(username),
                             !.password = sclone(password)]
             v == CallVerify(w1, us)
             c == websCreateSession(v.wp, ss)
         IN IF ~v.ok
            THEN [ret |-> FALSE, wp |-> v.wp, sessions |-> ss, log |-> <<"verify:0">>]
            ELSE [ret |-> TRUE, wp |-> v.wp,
                  sessions |-> IF c.id # NoSession
                               THEN websSetSessionVar(c.sessions, c.id, v.wp.username)
                               ELSE ss,
                  log |-> <<"verify:1", "websSetSessionVar">>]

\* the login action without the look at the session variable referrer
loginServiceProcNoReferrer(w, ss, us, sec, t, nx) ==
    LET l == websLoginUser(w, ss, us, websGetVar(w, "username", <<>>),
                           websGetVar(w, "password", <<>>))
        a == CallAskLogin(l.wp, sec, t, nx)
    IN IF l.ret
       THEN [ret |-> TRUE, wp |-> websRedirectByStatus(l.wp, HTTP_CODE_OK),
             sessions |-> l.sessions, next |-> nx, log |-> l.log]
       ELSE [ret |-> FALSE, wp |-> websRedirectByStatus(a.wp, HTTP_CODE_UNAUTHORIZED),
             sessions |-> l.sessions, next |-> a.next, log |-> l.log \o a.log]

\* loginServiceProc; ret is what its call of websLoginUser returned
loginServiceProc(w, ss, us, sec, t, nx) ==
    LET l == websLoginUser(w, ss, us, websGetVar(w, "username", <<>>),
                           websGetVar(w, "password", <<>>))
        referrer == websGetSessionVarReferrer(l.wp, l.sessions)
        a == CallAskLogin(l.wp, sec, t, nx)
    IN IF l.ret
       THEN [ret |-> TRUE,
             wp |-> IF referrer # NULL THEN websRedirect(l.wp, referrer)
                    ELSE websRedirectByStatus(l.wp, HTTP_CODE_OK),
             sessions |-> l.sessions, next |-> nx, log |-> l.log]
       ELSE [ret |-> FALSE, wp |-> websRedirectByStatus(a.wp, HTTP_CODE_UNAUTHORIZED),
             sessions |-> l.sessions, next |-> a.next, log |-> l.log \o a.log]

(********************************* logout **********************************)
\* websRemoveSessionVar(wp, WEBS_SESSION_USERNAME): the key leaves the
\* request's session, which is created when there is none
websRemoveSessionVar(w, ss) ==
    LET c == websCreateSession(w, ss) IN
    IF c.id # NoSession THEN websSetSessionVar(c.sessions, c.id, NULL) ELSE ss

\* the logout action without websRemoveSessionVar
logoutKeepsIdentity(w, ss) ==
    IF smatch(w.authType, S("basic")) \/ smatch(w.authType, S("digest"))
    THEN [wp |-> websError(w, HTTP_CODE_UNAUTHORIZED), sessions |-> ss]
    ELSE [wp |-> websRedirectByStatus(w, HTTP_CODE_OK), sessions |-> ss]

logoutServiceProc(w, ss) ==
    IF smatch(w.authType, S("basic")) \/ smatch(w.authType, S("digest"))
    THEN [wp |-> websError(w, HTTP_CODE_UNAUTHORIZED),
          sessions |-> websRemoveSessionVar(w, ss)]
    ELSE [wp |-> websRedirectByStatus(w, HTTP_CODE_OK),
          sessions |-> websRemoveSessionVar(w, ss)]

(******************************* the requests ******************************)
\* the clock values of the model
Times == {0, 1} \cup {NonceLifetime + d : d \in 0..MaxTick}

\* websOpenAuth: secret = websMD5("%x:%x" of rand() and time(0))
ServerSecret == websMD5(Fmt2(Hex(1), Hex(0)))
ForgedSecret == websMD5(Fmt2(Hex(2), Hex(0)))
OtherRealm == S("other.org")

\* a route before websSetRouteAuth
BaseRoute ==
    [authType |-> NULL, parseAuth |-> NoHandler, askLogin |-> NoHandler,
     verify |-> "websVerifyPassword"]
BasicRoute == websSetRouteAuth(BaseRoute, S("basic"))
DigestRoute == websSetRouteAuth(BaseRoute, S("digest"))

\* the request context of a request as the HTTP parser hands it over
NewRequest(route, cookie, authType, authDetails) ==
    [route |-> route, cookie |-> cookie, authType |-> authType,
     authDetails |-> authDetails, method |-> S("GET"),
     username |-> NULL, password |-> NULL, encoded |-> 0, user |-> NULL,
     digest |-> NULL, nonce |-> NULL, cnonce |-> NULL, nc |-> NULL, qop |-> NULL,
     realm |-> NULL, opaque |-> NULL, digestUri |-> NULL,
     authResponse |-> NULL, code |-> 0, redirect |-> NULL, vars |-> <<>>]

Cookies == {0} \cup SessionIds

\* Authorization: Basic base64(u:p), and one value without a ':'
BasicNames == {S("alice"), S("bob"), S("mallory"), <<>>}
BasicPasswords == {S("secret"), S("wrong"), Fmt2(S("se"), S("cret")), <<>>}
BasicHeaders ==
    {websEncode64(Fmt2(u, p)) : u \in BasicNames, p \in BasicPasswords}
    \cup {websEncode64(S("alice"))}

\* The response an RFC 2617 client computes from the password pw it knows
ClientResponse(u, rl, pw, nonce, nc, cn, qop, method, uri) ==
    LET ha1 == websMD5(Fmt3(u, rl, pw))
        ha2 == websMD5(Fmt2(method, uri))
    IN IF qop = NULL
       THEN websMD5(Fmt3(ha1, nonce, ha2))
       ELSE websMD5(Fmt6(ha1, nonce, nc, cn, qop, ha2))

\* a nonce as createDigestNonce makes it, under any secret and realm
MintedNonce(sec, rl, t) == websEncode64(Fmt3(sec, rl, Hex(t)) \o <<Colon>> \o Hex(0))

\* the nonce of a Digest request: its secret, its realm and the form of its
\* time field ("hex", "garbage", "missing"), or a value that does not decode
ClientNonce(d) ==
    CASE d.nform = "absent" -> NULL
      [] d.nform = "undecodable" -> S("@@@")
      [] d.nform = "garbage" ->
            websEncode64(Fmt3(d.nsecret, d.nrealm, S("zz")) \o <<Colon>> \o Hex(0))
      [] d.nform = "missing" -> websEncode64(Fmt2(d.nsecret, d.nrealm))
      [] OTHER -> MintedNonce(d.nsecret, d.nrealm, d.ntime)

\* Authorization: Digest k=v, ... as the list of its key=value pairs
DigestHeader(d) ==
    LET nonce == ClientNonce(d)
        nc == IF d.nc THEN S("00000001") ELSE NULL
        cn == IF d.cnonce THEN S("0a4f113b") ELSE NULL
        uri == S("/index.html")
        \* the client hashes with the realm of the challenge it answers
        resp == IF d.pw = NULL THEN NULL
                ELSE ClientResponse(d.user, BIT_REALM, d.pw, nonce, nc, cn, d.qop,
                                    S("GET"), uri)
        all == << <<"username", d.user>>, <<"realm", d.realm>>, <<"nonce", nonce>>,
                  <<"uri", uri>>, <<"algorithm", S("MD5")>>, <<"qop", d.qop>>,
                  <<"nc", nc>>, <<"cnonce", cn>>, <<"response", resp>> >>
    IN SelectSeq(all, LAMBDA kv : kv[2] # NULL)

\* the well-formed request of a client that knows alice's password
DigestBaseline ==
    [user |-> S("alice"), realm |-> BIT_REALM, nsecret |-> ServerSecret,
     nrealm |-> BIT_REALM, nform |-> "hex", qop |-> S("auth"), nc |-> TRUE,
     cnonce |-> TRUE, pw |-> S("secret")]

Deviations(d) ==
    Cardinality({f \in DOMAIN DigestBaseline : d[f] # DigestBaseline[f]})

\* the Digest requests: the baseline changed in at most two places, with
\* every issue time; two changes only with the issue time NonceLifetime
DigestParams ==
    {d \in [user : {S("alice"), S("bob"), S("mallory"), NULL},
            realm : {BIT_REALM, NULL},
            nsecret : {ServerSecret, ForgedSecret},
            nrealm : {BIT_REALM, OtherRealm},
            nform : {"hex", "garbage", "missing", "undecodable", "absent"},
            ntime : Times,
            qop : {S("auth"), S("auth-int"), NULL},
            nc : BOOLEAN, cnonce : BOOLEAN,
            pw : {S("secret"), S("wrong"), NULL}] :
        /\ Deviations(d) <= 2
        /\ Deviations(d) = 2 => d.ntime = NonceLifetime
        /\ d.nform # "hex" => d.ntime = NonceLifetime}
DigestHeaders == {DigestHeader(d) : d \in DigestParams}

Requests ==
    {NewRequest(BasicRoute, c, S("basic"), h) : c \in Cookies, h \in BasicHeaders}
    \cup {NewRequest(DigestRoute, c, S("digest"), h) : c \in Cookies, h \in DigestHeaders}
    \cup {NewRequest(r, c, NULL, NULL) :
             r \in {BasicRoute, DigestRoute, BaseRoute}, c \in Cookies}
    \cup {NewRequest(DigestRoute, c, S("basic"), websEncode64(Fmt2(S("alice"), S("secret")))) :
             c \in Cookies}
    \cup {NewRequest(BasicRoute, c, S("digest"), DigestHeader(DigestBaseline @@ [ntime |-> NonceLifetime])) :
             c \in Cookies}
    \cup {NewRequest(BaseRoute, c, S("basic"), websEncode64(Fmt2(S("alice"), S("wrong")))) :
             c \in Cookies}
    \cup {NewRequest(BasicRoute, c, S("basic"), websEncode64(Fmt2(S("carol"), S("secret")))) :
             c \in Cookies}

\* the requests that reach the logout action
LogoutRequests ==
    {NewRequest(BaseRoute, c, t, NULL) :
        c \in Cookies, t \in {S("basic"), S("digest"), S("form"), NULL}}

(****************************** the behaviours *****************************)
\* the store after the configuration is loaded: alice's password is stored
\* as MD5(name:realm:password), bob's in clear
LoadedUsers ==
    (S("alice") :> createUser(S("alice"),
                              websMD5(Fmt3(S("alice"), BIT_REALM, S("secret"))),
                              S("admin")))
    @@ (S("bob") :> createUser(S("bob"), S("secret"), S("user")))

\* the role table after the configuration is loaded
InitialRoles ==
    (S("admin") :> [abilities |-> <<S("user"), S("manage")>>])
    @@ (S("user") :> [abilities |-> <<S("view")>>])

\* the handles websOpenAuth got for users and roles: hashCreate hands out the
\* lowest free handle, 0 for the first table of the process
OpenHandles == {[users |-> 0, roles |-> 1], [users |-> 1, roles |-> 2]}
InitialHandles == [users |-> 1, roles |-> 2]

\* the memory after websOpenAuth(0) as the first call of the process:
\*   blocks   for every block websMD5 returned for secret, the times gfree
\*            has released it
\*   secret   the block the pointer secret holds, 0 for the null pointer
\*   tables   the handles of the tables hashCreate made and hashFree has not freed
\*   lost     the users and roles in tables whose handle no static holds
\*   actions  the names websDefineAction has defined
\*   fault    the process was ended by a fault of the allocator
\*   calls    the calls of websOpenAuth and websCloseAuth so far
OpenedHeap(h) ==
    [blocks |-> <<0>>, secret |-> 1, tables |-> 0..h.roles, lost |-> {},
     actions |-> {"login", "logout"}, fault |-> FALSE, calls |-> 1]
InitialHeap == OpenedHeap(InitialHandles)

\* the loader has called websComputeAllUserAbilities after the last line
InitialUsers ==
    [u \in DOMAIN LoadedUsers |->
        computeUserAbilities(LoadedUsers[u], InitialRoles, InitialHandles.roles).user]

\* req, wp and pre between two requests
IdleRequest == NewRequest(BaseRoute, 0, NULL, NULL)
IdlePre == [sessions |-> <<>>, next |-> 0]
\* no operation on the store or the session since the last request
NoOp == [name |-> "none", arg |-> <<>>, ret |-> 0]

\* the path websWriteAuthFile is called with
AuthPath == S("auth.txt")

\* the file system between two saves: the path holds the configuration that
\* was loaded, there is no temp file
IdleFile ==
    LET text == authFileText(LoadedUsers, InitialHandles.users, InitialRoles,
                             InitialHandles.roles, AuthPath)
    IN [pc |-> "idle", target |-> text, temp |-> NoFile, previous |-> text,
        ret |-> 0, saves |-> 0]

\* no run of computeUserAbilities
IdleCompute ==
    [pc |-> "idle", user |-> NULL, toks |-> <<>>, stack |-> <<>>,
     acc |-> [abilities |-> NoHash, errors |-> {}]]

Init ==
    /\ users = InitialUsers
    /\ sessions = <<>>
    /\ secret = ServerSecret
    /\ autoLogin \in BOOLEAN
    /\ next = 0
    /\ now \in Times
    /\ req = IdleRequest
    /\ wp = IdleRequest
    /\ result = "none"
    /\ log = <<>>
    /\ pre = IdlePre
    /\ roles = InitialRoles
    /\ hash = InitialHandles
    /\ heap = InitialHeap
    /\ op = NoOp
    /\ file = IdleFile
    /\ compute = IdleCompute

\* one request goes through websAuthenticate
Authenticate ==
    /\ result = "none" /\ op = NoOp
    /\ \E r \in Requests :
        LET out == websAuthenticate(r, sessions, users, autoLogin, secret, now, next) IN
        /\ out.next <= MaxNonces
        /\ req' = r
        /\ wp' = out.wp
        /\ result' = (IF out.ret THEN "true" ELSE "false")
        /\ log' = out.log
        /\ pre' = [sessions |-> sessions, next |-> next]
        /\ sessions' = out.sessions
        /\ next' = out.next
        /\ UNCHANGED <<users, secret, autoLogin, now, storeVars, op>>

\* the request completes and its context is discarded
Complete ==
    /\ result # "none" \/ op # NoOp
    /\ req' = IdleRequest
    /\ wp' = IdleRequest
    /\ result' = "none"
    /\ log' = <<>>
    /\ pre' = IdlePre
    /\ op' = NoOp
    /\ UNCHANGED <<users, sessions, secret, autoLogin, next, now, storeVars>>

\* time(0) advances between two requests
Tick ==
    /\ result = "none" /\ op = NoOp
    /\ \E t \in Times : t > now /\ now' = t
    /\ UNCHANGED <<users, sessions, secret, autoLogin, next, req, wp, result, log, pre,
                   storeVars, op>>

\* the session store drops a session whose lifespan is over
ExpireSession ==
    /\ result = "none" /\ op = NoOp
    /\ \E id \in DOMAIN sessions :
          sessions' = [i \in DOMAIN sessions \ {id} |-> sessions[i]]
    /\ UNCHANGED <<users, secret, autoLogin, next, now, req, wp, result, log, pre,
                   storeVars, op>>

\* the action "logout" runs logoutServiceProc on a request
Logout ==
    /\ result = "none" /\ op = NoOp
    /\ \E r \in LogoutRequests :
          LET out == logoutServiceProc(r, sessions) IN
          /\ req' = r
          /\ wp' = out.wp
          /\ sessions' = out.sessions
          /\ pre' = [sessions |-> sessions, next |-> next]
          /\ op' = [name |-> "logoutServiceProc", arg |-> <<>>, ret |-> 0]
    /\ UNCHANGED <<users, secret, autoLogin, next, now, result, log, storeVars>>

Next == Authenticate \/ Complete \/ Tick \/ ExpireSession \/ Logout

Spec == Init /\ [][Next]_vars

(****************** computeUserAbilities, one call at a time ***************)
\* the names of the role tables below
Ab(i) == <<<<"ability", <<i>>>>>>
Rn(i) == <<<<"role", <<i>>>>>>

\* admin -> manage, view
ScenarioA == S("admin") :> [abilities |-> <<S("manage"), S("view")>>]
\* roles within roles, an ability reached twice
Nested ==
    (S("admin") :> [abilities |-> <<S("user"), S("support"), S("manage")>>])
    @@ (S("user") :> [abilities |-> <<S("view")>>])
    @@ (S("support") :> [abilities |-> <<S("view"), S("reply")>>])
\* one role with more abilities than the depth bound
Wide == S("wide") :> [abilities |-> [i \in 1..(MaxDepth + 1) |-> Ab(i)]]
\* a -> b, b -> a, terminal
ScenarioF ==
    (S("a") :> [abilities |-> <<S("b")>>])
    @@ (S("b") :> [abilities |-> <<S("a"), S("terminal")>>])
\* the same with the abilities of b in the other order
ScenarioFRev ==
    (S("a") :> [abilities |-> <<S("b")>>])
    @@ (S("b") :> [abilities |-> <<S("terminal"), S("a")>>])
\* a role that names itself after MaxDepth - 1 abilities and before its last
WideCycle ==
    S("c") :> [abilities |-> [i \in 1..(MaxDepth + 1) |->
                                 IF i < MaxDepth THEN Ab(i)
                                 ELSE IF i = MaxDepth THEN S("c") ELSE S("terminal")]]
\* a role that names itself, once and twice
SelfOnce == S("r") :> [abilities |-> <<S("r")>>]
SelfTwice == S("r") :> [abilities |-> <<S("r"), S("view"), S("r")>>]
\* role 1 -> role 2 -> ... -> role n -> view
Chain(n) ==
    [r \in {Rn(i) : i \in 1..n} |->
        [abilities |-> IF r = Rn(n) THEN <<S("view")>> ELSE <<Rn(r[1][2][1] + 1)>>]]

RoleTables ==
    {<<>>, ScenarioA, Nested, Wide, ScenarioF, ScenarioFRev, WideCycle, SelfOnce,
     SelfTwice, Chain(MaxDepth), Chain(MaxDepth + 1)}

\* user->roles as authored: names separated by blanks and commas
UserRoleStrings ==
    {<<>>, S("admin"), S("foo"), S("wide"), S("a"), S("c"), S("r"), Rn(1),
     S("admin") \o <<Comma, Lit(" ")>> \o S("foo"),
     S("user") \o <<Lit(" ")>> \o S("support") \o <<Lit("\t")>> \o S("user")}

\* no request in progress, no session
AuthIdle ==
    /\ sessions = <<>> /\ secret = ServerSecret /\ autoLogin = FALSE
    /\ next = 0 /\ now = 0
    /\ req = IdleRequest /\ wp = IdleRequest /\ result = "none"
    /\ log = <<>> /\ pre = IdlePre

\* a role table and one user that websAddUser has just created
ClosureInit ==
    /\ AuthIdle
    /\ roles \in RoleTables
    /\ \E rl \in UserRoleStrings :
          users = websAddUser(<<>>, S("u"), S("pw"), rl).users
    /\ hash = InitialHandles
    /\ heap = InitialHeap
    /\ op = NoOp
    /\ file = IdleFile
    /\ compute = IdleCompute

\* the frame of the innermost call of computeAbilities
Top == compute.stack[Len(compute.stack)]
Pop == SubSeq(compute.stack, 1, Len(compute.stack) - 1)
\* user->abilities is the table the run fills
Fill(acc) == [users EXCEPT ![compute.user].abilities = acc.abilities]

\* computeUserAbilities up to its first stok
ComputeBegin ==
    /\ compute.pc = "idle"
    /\ \E u \in DOMAIN users :
          /\ compute' = [pc |-> "run", user |-> u,
                         toks |-> stokRoles(users[u].roles, <<>>), stack |-> <<>>,
                         acc |-> [abilities |-> hashCreate, errors |-> {}]]
          /\ users' = [users EXCEPT ![u].abilities = hashCreate]
    /\ UNCHANGED <<sessions, secret, autoLogin, next, now, req, wp, result, log, pre,
                   roles, hash, heap, file, op>>

\* the loop of computeUserAbilities calls computeAbilities(abilities, ability, 0)
ComputeToken ==
    /\ compute.pc = "run" /\ compute.stack = <<>> /\ compute.toks # <<>>
    /\ compute' = [compute EXCEPT
                      !.stack = <<[role |-> Head(compute.toks), depth |-> 0, i |-> 0]>>,
                      !.toks = Tail(compute.toks)]
    /\ UNCHANGED <<authVars, roles, hash, heap, file, op>>

\* computeAbilities from its entry to its loop, its hashEnter or its return
ComputeEnter ==
    /\ compute.stack # <<>> /\ Top.i = 0
    /\ IF DepthExceeded(Top.depth)
       THEN LET acc == RecursionError(compute.acc, Top.role) IN
            /\ compute' = [compute EXCEPT !.acc = acc, !.stack = Pop]
            /\ users' = users
       ELSE IF hash.roles < 0
       THEN compute' = [compute EXCEPT !.stack = Pop] /\ users' = users
       ELSE IF RoleDefined(roles, Top.role)
       THEN /\ compute' = [compute EXCEPT !.stack[Len(compute.stack)].i = 1]
            /\ users' = users
       ELSE LET acc == Terminal(compute.acc, Top.role) IN
            /\ compute' = [compute EXCEPT !.acc = acc, !.stack = Pop]
            /\ users' = Fill(acc)
    /\ UNCHANGED <<sessions, secret, autoLogin, next, now, req, wp, result, log, pre,
                   roles, hash, heap, file, op>>

\* one turn of the for loop: computeAbilities(abilities, key, ++depth), or
\* the return when the keys are through
ComputeIterate ==
    /\ compute.stack # <<>> /\ Top.i >= 1
    /\ LET abl == roles[Top.role].abilities IN
       IF Top.i > Len(abl)
       THEN compute' = [compute EXCEPT !.stack = Pop]
       ELSE compute' =
               [compute EXCEPT
                   !.stack = Append([compute.stack EXCEPT
                                        ![Len(compute.stack)].depth = Top.depth + 1,
                                        ![Len(compute.stack)].i = Top.i + 1],
                                    [role |-> abl[Top.i], depth |-> Top.depth + 1,
                                     i |-> 0])]
    /\ UNCHANGED <<authVars, roles, hash, heap, file, op>>

\* stok returns 0: gfree(roles), return
ComputeEnd ==
    /\ compute.pc = "run" /\ compute.stack = <<>> /\ compute.toks = <<>>
    /\ compute' = [compute EXCEPT !.pc = "done"]
    /\ UNCHANGED <<authVars, roles, hash, heap, file, op>>

ClosureNext == ComputeBegin \/ ComputeToken \/ ComputeEnter \/ ComputeIterate \/ ComputeEnd

\* a call that has begun goes on: the computation does not yield
ClosureSpec == ClosureInit /\ [][ClosureNext]_vars /\ WF_vars(ClosureNext)

(******************************** the claims *******************************)
\* the value of field key of a Digest header, NULL when the header has none
Field(h, key) ==
    LET hit == SelectSeq(h, LAMBDA kv : kv[1] = key) IN
    IF hit = <<>> THEN NULL ELSE hit[Len(hit)][2]

Handled == result # "none"
\* a request the gate has to decide: a route with an authType, autoLogin off
\* and no identity in the session of its cookie
Gated == Handled /\ ~autoLogin /\ req.route.authType # NULL
Uncachedly == Gated /\ SessionUsername(req, pre.sessions) = NULL
Called(e) == \E i \in 1..Len(log) : log[i] = e
Before(e, f) == \E i, j \in 1..Len(log) : i < j /\ log[i] = e /\ log[j] = f

\* C1: a request whose session cookie names a session that holds a user name
\* (written by an earlier admitted request) is admitted with that user name,
\* without a call of parseAuth or verify and without a change of the session.
C1_SessionFastPath ==
    (Gated /\ req.cookie \in DOMAIN pre.sessions
           /\ pre.sessions[req.cookie].username # NULL)
    => /\ result = "true"
       /\ wp.username = pre.sessions[req.cookie].username
       /\ ~Called("parseAuth:1") /\ ~Called("parseAuth:0")
       /\ ~Called("verify:1") /\ ~Called("verify:0")
       /\ sessions = pre.sessions

\* C1 witness: a request with a wrong Basic password is admitted from the session
C1_Witness ==
    /\ Gated /\ req.cookie \in DOMAIN pre.sessions
    /\ pre.sessions[req.cookie].username = S("alice")
    /\ req.authDetails = websEncode64(Fmt2(S("alice"), S("wrong")))
    /\ result = "true" /\ wp.username = S("alice")

\* C2: without a cached identity, verify is called only after parseAuth
\* succeeded (when there are authDetails), the user name goes to the session
\* only after verify returned true, the request is admitted only after verify
\* returned true, and a refused request leaves the session store as it was.
C2_Ordering ==
    Uncachedly =>
       /\ (Called("verify:1") \/ Called("verify:0")) /\ req.authDetails # NULL
             => log[1] = "parseAuth:1"
       /\ Called("parseAuth:0") => log = <<"parseAuth:0">>
       /\ Called("websSetSessionVar") => Before("verify:1", "websSetSessionVar")
       /\ result = "true" => Called("verify:1")
       /\ Called("verify:0") => result = "false"
       /\ result = "false" => sessions = pre.sessions

\* C2 witness: parseAuth, verify and the session write happened, in this order
C2_Witness ==
    /\ Uncachedly /\ result = "true"
    /\ log = <<"parseAuth:1", "verify:1", "websSetSessionVar">>
    /\ sessions # pre.sessions

\* C3: on a Basic route a request with Authorization: Basic base64(u:p) and no
\* cached identity is admitted iff u is a user and MD5(u:realm:p) is the stored
\* password of u; otherwise it is refused with 401 and the Basic challenge.
C3_BasicDecision ==
    \A u \in BasicNames, p \in BasicPasswords :
        (Uncachedly /\ req.route = BasicRoute /\ req.authType = S("basic")
                    /\ req.authDetails = websEncode64(Fmt2(u, p)))
        => IF u \in DOMAIN users
              /\ websMD5(Fmt3(u, BIT_REALM, p)) = users[u].password
           THEN result = "true"
           ELSE /\ result = "false"
                /\ wp.code = 401
                /\ wp.authResponse = S("Basic realm=\"") \o BIT_REALM \o S("\"")

\* C3 witness: alice is admitted with her password
C3_Witness ==
    /\ Uncachedly /\ req.route = BasicRoute
    /\ req.authDetails = websEncode64(Fmt2(S("alice"), S("secret")))
    /\ result = "true"

\* a nonce of this server (its secret, its realm) that is at most
\* NonceLifetime old
FreshNonce(n) ==
    \E t \in Times : n = MintedNonce(secret, BIT_REALM, t) /\ now <= t + NonceLifetime

\* the request handled is a Digest request with a valid nonce at most 300 s
\* old, qop=auth, nc and cnonce present and a known user name
DigestWellAsked ==
    LET h == req.authDetails IN
    /\ Uncachedly /\ req.route = DigestRoute /\ req.authType = S("digest")
    /\ FreshNonce(Field(h, "nonce")) /\ Field(h, "qop") = S("auth")
    /\ Field(h, "nc") # NULL /\ Field(h, "cnonce") # NULL
    /\ Field(h, "username") \in DOMAIN users

\* the response field is MD5(HA1:nonce:nc:cnonce:auth:MD5(method:uri)), HA1
\* the stored password of the user the request names
ResponseIsRight ==
    LET h == req.authDetails IN
    Field(h, "response") =
        websMD5(Fmt6(users[Field(h, "username")].password, Field(h, "nonce"),
                     Field(h, "nc"), Field(h, "cnonce"), S("auth"),
                     websMD5(Fmt2(req.method, Field(h, "uri")))))

\* C4 as stated: a Digest request with a valid nonce at most 300 s old,
\* qop=auth, nc and cnonce and a known user is admitted iff its response is
\* MD5(HA1:nonce:nc:cnonce:auth:MD5(method:uri)), HA1 the stored password.
C4_DigestDecisionAsStated ==
    DigestWellAsked => (result = "true" <=> ResponseIsRight)

\* C4 as amended: such a request that also carries a realm field is admitted
\* iff its response is MD5(HA1:nonce:nc:cnonce:auth:MD5(method:uri)).
C4_DigestDecision ==
    (DigestWellAsked /\ Field(req.authDetails, "realm") # NULL)
    => (result = "true" <=> ResponseIsRight)

\* C4 witness: a Digest request with the right response is admitted
C4_Witness ==
    /\ DigestWellAsked /\ Field(req.authDetails, "realm") # NULL
    /\ ResponseIsRight /\ result = "true"

\* C5: without a cached identity a request that advertises another
\* authentication type than the route's is refused with 400 by websError alone:
\* no parseAuth, askLogin or verify, no session write, no new nonce.
C5_ProtocolDiscrimination ==
    (Uncachedly /\ req.authType # NULL /\ req.authType # req.route.authType)
    => /\ result = "false"
       /\ wp.code = 400
       /\ log = <<"websError">>
       /\ wp.authResponse = NULL
       /\ sessions = pre.sessions /\ next = pre.next

\* C5 witness: a Basic header on the Digest route
C5_Witness ==
    /\ Uncachedly /\ req.route = DigestRoute /\ req.authType = S("basic")
    /\ result = "false" /\ wp.code = 400

\* what a client observes of websAuthenticate: the return value, the status
\* and whether a challenge was emitted
Observed == <<result = "true", wp.code, wp.authResponse # NULL>>
Observable(out) == <<out.ret, out.wp.code, out.wp.authResponse # NULL>>

\* the response websVerifyPassword expects of a qop=auth request of user u
ExpectedResponse(r, u) ==
    LET h == r.authDetails IN
    websMD5(Fmt6(users[u].password, Field(h, "nonce"), Field(h, "nc"),
                 Field(h, "cnonce"), S("auth"),
                 websMD5(Fmt2(r.method, Field(h, "uri")))))

\* r fails for one of the causes unknown user, wrong password, stale nonce,
\* and is otherwise a well-formed request for its route
CredentialFailure(r) ==
    \/ /\ r.route = BasicRoute /\ r.authType = S("basic")
       /\ \E u \in BasicNames \ {<<>>}, p \in BasicPasswords :
             /\ r.authDetails = websEncode64(Fmt2(u, p))
             /\ ~(u \in DOMAIN users
                    /\ websMD5(Fmt3(u, BIT_REALM, p)) = users[u].password)
    \/ /\ r.route = DigestRoute /\ r.authType = S("digest")
       /\ LET h == r.authDetails
              u == Field(h, "username")
          IN /\ u # NULL /\ Field(h, "realm") # NULL /\ Field(h, "uri") # NULL
             /\ Field(h, "qop") = S("auth")
             /\ Field(h, "nc") # NULL /\ Field(h, "cnonce") # NULL
             /\ Field(h, "response") # NULL
             /\ \E t \in Times :
                   /\ Field(h, "nonce") = MintedNonce(secret, BIT_REALM, t)
                   /\ \/ now > t + NonceLifetime
                      \/ u \notin DOMAIN users
                      \/ Field(h, "response") # ExpectedResponse(r, u)

\* requests that differ only in the cause of a failure
FailureCandidates ==
    {NewRequest(BasicRoute, c, S("basic"), websEncode64(Fmt2(u, p))) :
        c \in Cookies, u \in {S("alice"), S("mallory")}, p \in {S("secret"), S("wrong")}}
    \cup
    {NewRequest(DigestRoute, c, S("digest"),
                DigestHeader([DigestBaseline EXCEPT !.user = u, !.pw = p] @@ [ntime |-> t])) :
        c \in Cookies, u \in {S("alice"), S("mallory")}, p \in {S("secret"), S("wrong")},
        t \in Times}

\* C6: two requests to one route that fail for different causes (unknown user,
\* wrong password, stale nonce) have the same observable outcome: return
\* false, status 401 and a challenge. Stated of the request handled and of
\* every request that differs from it in the cause of the failure only.
C6_UniformFailure ==
    (Uncachedly /\ CredentialFailure(req))
    => /\ Observed = <<FALSE, 401, TRUE>>
       /\ \A r \in FailureCandidates :
             (r.route = req.route /\ r.cookie = req.cookie /\ CredentialFailure(r))
             => Observable(websAuthenticate(r, pre.sessions, users, autoLogin,
                                            secret, now, pre.next)) = Observed

\* r is a well-formed Digest request whose nonce was minted under another
\* realm or another secret than the server's
NonceMismatch(r) ==
    /\ r.route = DigestRoute /\ r.authType = S("digest")
    /\ LET h == r.authDetails IN
       /\ Field(h, "username") \in DOMAIN users /\ Field(h, "realm") # NULL
       /\ Field(h, "qop") = S("auth") /\ Field(h, "nc") # NULL
       /\ Field(h, "cnonce") # NULL /\ Field(h, "response") # NULL
       /\ \E t \in Times, sec \in {ServerSecret, ForgedSecret}, rl \in {BIT_REALM, OtherRealm} :
             /\ Field(h, "nonce") = MintedNonce(sec, rl, t)
             /\ sec # secret \/ rl # BIT_REALM

\* C7: whenever websAuthenticate refuses a request for an unknown user, a
\* wrong password, an expired nonce or a realm or secret mismatch, askLogin
\* has emitted a challenge (on a Digest route with the nonce createDigestNonce
\* mints then) and 401 is issued; and it never refuses a request without
\* having issued 400 or 401.
C7_FailureSurfaced ==
    /\ (Uncachedly /\ result = "false"
           /\ (CredentialFailure(req) \/ NonceMismatch(req)))
       => /\ wp.code = 401 /\ Called("askLogin")
          /\ req.route = BasicRoute
                => wp.authResponse = S("Basic realm=\"") \o BIT_REALM \o S("\"")
          /\ req.route = DigestRoute
                => /\ next = pre.next + 1
                   /\ wp.authResponse = digestLogin(req, secret, now, pre.next).authResponse
    /\ (Gated /\ result = "false") => wp.code \in {400, 401}

\* the nonces whose time field does not parse or is missing
MalformedTimeNonces ==
    {websEncode64(Fmt3(sec, rl, S("zz")) \o <<Colon>> \o Hex(0)) :
        sec \in {ServerSecret, ForgedSecret}, rl \in {BIT_REALM, OtherRealm}}
    \cup {websEncode64(Fmt2(sec, rl)) :
             sec \in {ServerSecret, ForgedSecret}, rl \in {BIT_REALM, OtherRealm}}

\* the request is well formed and nothing but the age of its nonce can make
\* parseDigestDetails refuse it
OnlyAgeMatters(t) ==
    LET h == req.authDetails IN
    /\ Field(h, "nonce") = MintedNonce(secret, BIT_REALM, t)
    /\ Field(h, "username") \in DOMAIN users /\ Field(h, "realm") # NULL
    /\ Field(h, "qop") = S("auth") /\ Field(h, "nc") # NULL
    /\ Field(h, "cnonce") # NULL /\ Field(h, "response") # NULL

\* C8 (first two parts): a nonce with issue time T is refused by
\* parseDigestDetails when now > T + 300 and is not refused for its age when
\* now <= T + 300.
C8_Freshness ==
    (Uncachedly /\ req.route = DigestRoute /\ req.authType = S("digest"))
    => \A t \in Times, sec \in {ServerSecret, ForgedSecret}, rl \in {BIT_REALM, OtherRealm} :
          /\ (Field(req.authDetails, "nonce") = MintedNonce(sec, rl, t)
                /\ now > t + NonceLifetime) => Called("parseAuth:0")
          /\ (OnlyAgeMatters(t) /\ now <= t + NonceLifetime) => Called("parseAuth:1")

\* C8: nonce freshness as above, and a nonce whose time field is missing or
\* does not parse is refused by parseDigestDetails.
C8_NonceFreshness ==
    /\ C8_Freshness
    /\ (Uncachedly /\ req.route = DigestRoute /\ req.authType = S("digest")
          /\ Field(req.authDetails, "nonce") \in MalformedTimeNonces)
       => Called("parseAuth:0")

\* C9: a Digest request whose nonce was minted under another realm than the
\* server's is refused by parseDigestDetails, whatever its other fields are.
C9_RealmBinding ==
    (Uncachedly /\ req.route = DigestRoute /\ req.authType = S("digest")
       /\ \E t \in Times, sec \in {ServerSecret, ForgedSecret} :
             Field(req.authDetails, "nonce") = MintedNonce(sec, OtherRealm, t))
    => /\ log = <<"parseAuth:0">>
       /\ result = "false" /\ sessions = pre.sessions

\* C9 witness: the nonce of the other realm is fresh and everything else in
\* the request is right
C9_Witness ==
    /\ Uncachedly /\ req.route = DigestRoute
    /\ \E t \in Times :
          /\ Field(req.authDetails, "nonce") = MintedNonce(secret, OtherRealm, t)
          /\ now <= t + NonceLifetime
    /\ Field(req.authDetails, "username") = S("alice")
    /\ Field(req.authDetails, "response") = ExpectedResponse(req, S("alice"))
    /\ result = "false"

\* C10: a Digest request whose nonce holds another secret than the server's
\* is refused by parseDigestDetails.
C10_SecretCheck ==
    (Uncachedly /\ req.route = DigestRoute /\ req.authType = S("digest")
       /\ \E t \in Times, rl \in {BIT_REALM, OtherRealm} :
             /\ secret # ForgedSecret
             /\ Field(req.authDetails, "nonce") = MintedNonce(ForgedSecret, rl, t))
    => Called("parseAuth:0")

(************************** the store, operation by operation **************)
\* the arguments the store operations are called with
UserNames == {S("alice"), S("carol"), S("dave")}
AddUserNames == {S("carol"), S("alice"), NULL}
AddPassword(name) == websMD5(Fmt3(name, BIT_REALM, S("secret")))
AddRoleStrings == {S("user") \o <<Comma, Lit(" ")>> \o S("audit")}
SetRoleStrings == {S("admin"), S("audit"), <<>>}
RoleNames == {S("user"), S("audit"), S("ghost")}
AddRoleNames == {S("audit"), S("admin"), NULL}
AddRoleAbilities == {<<S("user"), S("log")>>}

\* the store after websOpenAuth and the load of the configuration, which ends
\* with websComputeAllUserAbilities
StoreInit ==
    /\ AuthIdle
    /\ hash \in OpenHandles
    /\ heap = OpenedHeap(hash)
    /\ roles = InitialRoles
    /\ users = websComputeAllUserAbilities(LoadedUsers, hash.users, InitialRoles,
                                           hash.roles)
    /\ op = NoOp
    /\ file = IdleFile
    /\ compute = IdleCompute

\* no request and no save in progress
StoreIdle == result = "none" /\ file.pc = "idle" /\ file.saves = 0

AddUser ==
    /\ StoreIdle
    /\ \E name \in AddUserNames, rl \in AddRoleStrings :
          LET out == websAddUser(users, name, AddPassword(name), rl) IN
          /\ users' = out.users
          /\ op' = [name |-> "websAddUser", arg |-> <<name, AddPassword(name), rl>>,
                    ret |-> out.ret]
    /\ UNCHANGED <<sessions, secret, autoLogin, next, now, req, wp, result, log, pre,
                   storeVars>>

RemoveUser ==
    /\ StoreIdle
    /\ \E name \in UserNames :
          LET out == websRemoveUser(users, name) IN
          /\ users' = out.users
          /\ op' = [name |-> "websRemoveUser", arg |-> <<name>>, ret |-> out.ret]
    /\ UNCHANGED <<sessions, secret, autoLogin, next, now, req, wp, result, log, pre,
                   storeVars>>

SetUserRoles ==
    /\ StoreIdle
    /\ \E name \in UserNames, rl \in SetRoleStrings :
          LET out == websSetUserRoles(users, roles, hash.roles, name, rl) IN
          /\ users' = out.users
          /\ op' = [name |-> "websSetUserRoles", arg |-> <<name, rl>>, ret |-> out.ret]
    /\ UNCHANGED <<sessions, secret, autoLogin, next, now, req, wp, result, log, pre,
                   storeVars>>

ComputeAllUserAbilities ==
    /\ StoreIdle
    /\ users' = websComputeAllUserAbilities(users, hash.users, roles, hash.roles)
    /\ op' = [name |-> "websComputeAllUserAbilities", arg |-> <<>>, ret |-> 0]
    /\ UNCHANGED <<sessions, secret, autoLogin, next, now, req, wp, result, log, pre,
                   storeVars>>

AddRole ==
    /\ StoreIdle
    /\ \E name \in AddRoleNames, abilities \in AddRoleAbilities :
          LET out == websAddRole(roles, name, abilities) IN
          /\ roles' = out.roles
          /\ op' = [name |-> "websAddRole", arg |-> <<name>> \o abilities,
                    ret |-> out.ret]
    /\ UNCHANGED <<authVars, hash, heap, file, compute>>

RemoveRole ==
    /\ StoreIdle
    /\ \E name \in RoleNames :
          LET out == websRemoveRole(roles, hash.roles, name) IN
          /\ roles' = out.roles
          /\ op' = [name |-> "websRemoveRole", arg |-> <<name>>, ret |-> out.ret]
    /\ UNCHANGED <<authVars, hash, heap, file, compute>>

(*********************** websWriteAuthFile, step by step *******************)
SaveOp(ret) == [name |-> "websWriteAuthFile", arg |-> <<AuthPath>>, ret |-> ret]

\* tempnam and fopen(tempFile, "wt"): the temp file exists and is empty, or
\* fopen fails and websWriteAuthFile returns -1
SaveOpen ==
    /\ result = "none" /\ file.pc = "idle" /\ file.saves < MaxSaves
    /\ \/ file' = [file EXCEPT !.pc = "opened", !.temp = <<>>,
                               !.previous = file.target, !.ret = 0]
       \/ file' = [file EXCEPT !.previous = file.target, !.ret = -1,
                               !.saves = @ + 1]
    /\ op' = SaveOp(file'.ret)
    /\ UNCHANGED <<authVars, roles, hash, heap, compute>>

\* the fprintf calls and fclose
SaveWrite ==
    /\ file.pc = "opened"
    /\ file' = [file EXCEPT !.pc = "closed",
                            !.temp = authFileText(users, hash.users, roles,
                                                  hash.roles, AuthPath)]
    /\ UNCHANGED <<authVars, roles, hash, heap, compute, op>>

\* unlink(path)
SaveUnlink ==
    /\ file.pc = "closed"
    /\ file' = [file EXCEPT !.pc = "unlinked", !.target = NoFile]
    /\ UNCHANGED <<authVars, roles, hash, heap, compute, op>>

\* rename(tempFile, path): the path gets the temp file, or rename fails and
\* websWriteAuthFile returns -1
SaveRename ==
    /\ file.pc = "unlinked"
    /\ \/ file' = [file EXCEPT !.pc = "idle", !.target = file.temp, !.temp = NoFile,
                               !.ret = 0, !.saves = @ + 1]
       \/ file' = [file EXCEPT !.pc = "idle", !.ret = -1, !.saves = @ + 1]
    /\ op' = SaveOp(file'.ret)
    /\ UNCHANGED <<authVars, roles, hash, heap, compute>>

StoreNext ==
    \/ AddUser \/ RemoveUser \/ SetUserRoles \/ ComputeAllUserAbilities
    \/ AddRole \/ RemoveRole
    \/ SaveOpen \/ SaveWrite \/ SaveUnlink \/ SaveRename

StoreSpec == StoreInit /\ [][StoreNext]_vars

\* requests to a server whose application adds users while it runs
LoginNext == Next \/ AddUser
LoginSpec == Init /\ [][LoginNext]_vars

\* requests to a server whose application removes users while it runs
RemoveNext == Next \/ RemoveUser
RemoveSpec == Init /\ [][RemoveNext]_vars

(************************* requests that interleave ************************)
\* requests to the Digest and the Basic route: without credentials, with
\* alice's password and with a wrong one
NonceRequests ==
    {NewRequest(r, c, NULL, NULL) : r \in {DigestRoute, BasicRoute}, c \in Cookies}
    \cup {NewRequest(DigestRoute, c, S("digest"),
                     DigestHeader([DigestBaseline EXCEPT !.pw = p]
                                  @@ [ntime |-> NonceLifetime])) :
             c \in Cookies, p \in {S("secret"), S("wrong")}}

\* websAuthenticate handles a request while the context of the request
\* before it is still live (its response is not yet sent)
Interleaved ==
    /\ op = NoOp
    /\ \E r \in NonceRequests :
        LET out == websAuthenticate(r, sessions, users, autoLogin, secret, now, next) IN
        /\ out.next <= MaxChallenges
        /\ req' = r
        /\ wp' = out.wp
        /\ result' = (IF out.ret THEN "true" ELSE "false")
        /\ log' = out.log
        /\ pre' = [sessions |-> sessions, next |-> next]
        /\ sessions' = out.sessions
        /\ next' = out.next
        /\ UNCHANGED <<users, secret, autoLogin, now, storeVars, op>>

NonceNext == Interleaved \/ Complete \/ Tick
NonceSpec == Init /\ [][NonceNext]_vars

(******************************* the form login ****************************)
\* the route of the login form: websSetRouteAuth(route, "form"), and the same
\* route without a verifier
FormRoute == websSetRouteAuth(BaseRoute, S("form"))
NoVerifyRoute == [FormRoute EXCEPT !.verify = NoHandler]

\* the decoded form variables of a POST to the login action
FormNames == {S("alice"), S("bob"), S("mallory")}
FormPasswords == {S("secret"), S("wrong")}
FormVars ==
    {<< <<"username", u>>, <<"password", p>> >> : u \in FormNames, p \in FormPasswords}
    \cup {<< <<"username", S("alice")>> >>, <<>>}
LoginRequests ==
    {[NewRequest(r, c, NULL, NULL) EXCEPT !.vars = v] :
        r \in {FormRoute, NoVerifyRoute}, c \in Cookies, v \in FormVars}

\* the session variable referrer as the application sets it
Referrers == {S("/dashboard")}

\* the action "login" runs loginServiceProc on a request
Login ==
    /\ result = "none" /\ op = NoOp
    /\ \E r \in LoginRequests :
          LET out == loginServiceProc(r, sessions, users, secret, now, next) IN
          /\ req' = r
          /\ wp' = out.wp
          /\ result' = (IF out.ret THEN "true" ELSE "false")
          /\ log' = out.log
          /\ pre' = [sessions |-> sessions, next |-> next]
          /\ sessions' = out.sessions
          /\ next' = out.next
          /\ op' = [name |-> "loginServiceProc", arg |-> <<>>, ret |-> 0]
    /\ UNCHANGED <<users, secret, autoLogin, now, storeVars>>

\* the handler of a request calls websLoginUser on the context of the
\* request, as the gate or the login action left it
LoginUser ==
    /\ result # "none" /\ op.name # "websLoginUser"
    /\ \E u \in FormNames, p \in FormPasswords :
          LET out == websLoginUser(wp, sessions, users, u, p) IN
          /\ req' = wp
          /\ wp' = out.wp
          /\ result' = (IF out.ret THEN "true" ELSE "false")
          /\ log' = out.log
          /\ pre' = [sessions |-> sessions, next |-> next]
          /\ sessions' = out.sessions
          /\ op' = [name |-> "websLoginUser", arg |-> <<u, p>>,
                    ret |-> IF out.ret THEN 1 ELSE 0]
    /\ UNCHANGED <<users, secret, autoLogin, next, now, storeVars>>

\* the application notes in the session of a client where the client wanted
\* to go: websSetSessionVar(wp, "referrer", uri)
SetReferrer ==
    /\ result = "none" /\ op = NoOp
    /\ \E c \in Cookies, uri \in Referrers :
          LET s == websCreateSession(NewRequest(FormRoute, c, NULL, NULL), sessions) IN
          /\ s.id # NoSession
          /\ sessions' = [s.sessions EXCEPT ![s.id].referrer = uri]
    /\ UNCHANGED <<users, secret, autoLogin, next, now, req, wp, result, log, pre,
                   storeVars, op>>

\* the server of the form login has authentication on
FormInit == Init /\ ~autoLogin /\ now = 0

\* the login action, request after request
FormNext == Login \/ SetReferrer \/ Complete
FormSpec == FormInit /\ [][FormNext]_vars

\* requests whose handler calls websLoginUser after the gate or after the
\* login action
RetryNext == Login \/ LoginUser \/ Interleaved \/ Complete
RetrySpec == FormInit /\ [][RetryNext]_vars

(*********************** websOpenAuth and websCloseAuth ********************)
\* the calls of websOpenAuth and websCloseAuth of one behaviour
MaxCalls == 4
\* the values rand() returns
Rands == {1, 2}
\* the bytes of a block after gfree has released it and the allocator has
\* written to it
Released == <<<<"released", <<>>>>>>
\* the statics users and roles of a closed store
ClosedHandles == [users |-> -1, roles |-> -1]

\* hashCreate(-1) of websOpenAuth: the lowest handle no live table holds
RECURSIVE hashCreateHandle(_, _)
hashCreateHandle(taken, h) ==
    IF h \in taken THEN hashCreateHandle(taken, h + 1) ELSE h

\* the entries of the tables at the handles h: freeUser and freeRole have
\* not been called on them
Entries(h, us, rs) ==
    (IF h.users >= 0 THEN {<<"user", u>> : u \in DOMAIN us} ELSE {})
    \cup (IF h.roles >= 0 THEN {<<"role", r>> : r \in DOMAIN rs} ELSE {})

\* websOpenAuth(minimal): the statics users and roles get new tables, the
\* tables they held stay allocated with their entries; if (!minimal) the
\* pointer secret gets a new block, the block it held stays as it is, and
\* the actions login and logout are defined
websOpenAuth(minimal, h, hp, us, rs, sec, rnd, t) ==
    LET hu == hashCreateHandle(hp.tables, 0)
        hr == hashCreateHandle(hp.tables \cup {hu}, 0)
        tabled == [hp EXCEPT !.tables = @ \cup {hu, hr},
                             !.lost = @ \cup Entries(h, us, rs),
                             !.calls = @ + 1]
    IN [ret |-> 0,
        hash |-> [users |-> hu, roles |-> hr],
        users |-> <<>>,
        roles |-> <<>>,
        secret |-> IF minimal = 0 THEN websMD5(Fmt2(Hex(rnd), Hex(t))) ELSE sec,
        heap |-> IF minimal = 0
                 THEN [tabled EXCEPT !.blocks = Append(@, 0),
                                     !.secret = Len(hp.blocks) + 1,
                                     !.actions = @ \cup {"login", "logout"}]
                 ELSE tabled]

\* websCloseAuth: gfree(secret) and no reset of the pointer; every user and
\* role of the tables the statics hold is freed, the tables are freed and
\* the statics set to -1. bytes is what the released block holds afterwards,
\* abort whether gfree of a block already released ends the process.
websCloseAuth(h, hp, us, rs, sec, bytes, abort) ==
    LET freed == IF hp.secret = 0 THEN hp
                 ELSE [hp EXCEPT !.blocks[hp.secret] = @ + 1,
                                 !.fault = abort /\ hp.blocks[hp.secret] > 0]
    IN [hash |-> ClosedHandles,
        users |-> IF h.users >= 0 THEN <<>> ELSE us,
        roles |-> IF h.roles >= 0 THEN <<>> ELSE rs,
        secret |-> IF hp.secret = 0 THEN sec ELSE bytes,
        heap |-> [freed EXCEPT !.tables = @ \ {h.users, h.roles},
                               !.calls = @ + 1]]

\* the process before its first call of websOpenAuth: the statics as they
\* are initialised, no table or one table of another module
LifeInit ==
    /\ users = <<>> /\ roles = <<>>
    /\ hash = ClosedHandles
    /\ secret = NULL
    /\ heap \in {[blocks |-> <<>>, secret |-> 0, tables |-> T, lost |-> {},
                  actions |-> {}, fault |-> FALSE, calls |-> 0] : T \in {{}, {0}}}
    /\ sessions = <<>> /\ autoLogin = FALSE /\ next = 0 /\ now = 0
    /\ req = IdleRequest /\ wp = IdleRequest /\ result = "none"
    /\ log = <<>> /\ pre = IdlePre
    /\ op = NoOp
    /\ file = IdleFile
    /\ compute = IdleCompute

\* no request in progress and the process alive
LifeIdle == result = "none" /\ ~heap.fault

OpenAuth ==
    /\ LifeIdle /\ heap.calls < MaxCalls
    /\ \E minimal \in {0, 1}, rnd \in Rands :
          LET out == websOpenAuth(minimal, hash, heap, users, roles, secret, rnd, now) IN
          /\ hash' = out.hash
          /\ users' = out.users
          /\ roles' = out.roles
          /\ secret' = out.secret
          /\ heap' = out.heap
          /\ op' = [name |-> "websOpenAuth", arg |-> <<minimal>>, ret |-> out.ret]
    /\ UNCHANGED <<sessions, autoLogin, next, now, req, wp, result, log, pre,
                   file, compute>>

CloseAuth ==
    /\ LifeIdle /\ heap.calls < MaxCalls
    /\ \E bytes \in {secret, Released}, abort \in BOOLEAN :
          LET out == websCloseAuth(hash, heap, users, roles, secret, bytes, abort) IN
          /\ hash' = out.hash
          /\ users' = out.users
          /\ roles' = out.roles
          /\ secret' = out.secret
          /\ heap' = out.heap
          /\ op' = [name |-> "websCloseAuth", arg |-> <<>>, ret |-> 0]
    /\ UNCHANGED <<sessions, autoLogin, next, now, req, wp, result, log, pre,
                   file, compute>>

\* the application loads its configuration into the open store and ends
\* with websComputeAllUserAbilities
Load ==
    /\ LifeIdle /\ hash.users >= 0 /\ hash.roles >= 0
    /\ roles' = InitialRoles
    /\ users' = websComputeAllUserAbilities(LoadedUsers, hash.users, InitialRoles,
                                            hash.roles)
    /\ op' = [name |-> "websComputeAllUserAbilities", arg |-> <<>>, ret |-> 0]
    /\ UNCHANGED <<sessions, secret, autoLogin, next, now, req, wp, result, log, pre,
                   hash, heap, file, compute>>

\* the open server gets a request to the Digest route without credentials:
\* digestLogin reads secret for the nonce of its challenge
DigestRequest ==
    /\ LifeIdle /\ op = NoOp /\ hash.users >= 0
    /\ LET r == NewRequest(DigestRoute, 0, NULL, NULL)
           out == websAuthenticate(r, sessions, users, autoLogin, secret, now, next)
       IN /\ out.next <= MaxNonces
          /\ req' = r
          /\ wp' = out.wp
          /\ result' = (IF out.ret THEN "true" ELSE "false")
          /\ log' = out.log
          /\ pre' = [sessions |-> sessions, next |-> next]
          /\ sessions' = out.sessions
          /\ next' = out.next
    /\ UNCHANGED <<users, secret, autoLogin, now, storeVars, op>>

LifeNext == OpenAuth \/ CloseAuth \/ Load \/ DigestRequest \/ Complete
LifeSpec == LifeInit /\ [][LifeNext]_vars

(************************ routes of every auth name ************************)
\* the names websSetRouteAuth is called with: basic, digest, form and a name
\* it does not know
AuthNames == {S("basic"), S("digest"), S("form"), S("ldap")}
\* a route whose owner has set no verifier
UnverifiedRoute == [BaseRoute EXCEPT !.verify = NoHandler]
ConfiguredRoutes ==
    {websSetRouteAuth(b, a) : b \in {BaseRoute, UnverifiedRoute}, a \in AuthNames}

\* the Authorization header of a request as the HTTP parser splits it into
\* wp->authType and wp->authDetails: no header, Basic and Digest credentials
\* of alice, and a header whose scheme is empty
AuthHeaders ==
    {<<NULL, NULL>>,
     <<S("basic"), websEncode64(Fmt2(S("alice"), S("secret")))>>,
     <<S("digest"), DigestHeader(DigestBaseline @@ [ntime |-> NonceLifetime])>>,
     <<sclone(NULL), sclone(NULL)>>,
     <<sclone(NULL), websEncode64(Fmt2(S("alice"), S("secret")))>>}
RouteRequests ==
    {NewRequest(r, c, h[1], h[2]) : r \in ConfiguredRoutes, c \in Cookies, h \in AuthHeaders}

\* websAuthenticate called a handler through a null pointer
NullCall(lg) == \E i \in 1..Len(lg) : lg[i] \in {"parseAuth:null", "verify:null"}

\* one request to a configured route goes through websAuthenticate; a call
\* through a null pointer ends the process
AuthenticateRoute ==
    /\ result = "none" /\ op = NoOp /\ ~heap.fault
    /\ \E r \in RouteRequests :
        LET out == websAuthenticate(r, sessions, users, autoLogin, secret, now, next) IN
        /\ out.next <= MaxChallenges
        /\ req' = r
        /\ wp' = out.wp
        /\ result' = (IF NullCall(out.log) THEN "fault"
                      ELSE IF out.ret THEN "true" ELSE "false")
        /\ log' = out.log
        /\ pre' = [sessions |-> sessions, next |-> next]
        /\ sessions' = out.sessions
        /\ next' = out.next
        /\ heap' = [heap EXCEPT !.fault = NullCall(out.log)]
    /\ UNCHANGED <<users, secret, autoLogin, now, roles, hash, file, compute, op>>

RouteNext == AuthenticateRoute \/ Complete
RouteSpec == FormInit /\ [][RouteNext]_vars

(**************************** a header presented again *********************)
\* Digest requests of a client that answers a challenge issued at one of the
\* clock values, with alice's password or a wrong one
ReplayRequests ==
    {NewRequest(DigestRoute, c, S("digest"),
                DigestHeader([DigestBaseline EXCEPT !.pw = p] @@ [ntime |-> t])) :
        c \in Cookies, p \in {S("secret"), S("wrong")}, t \in Times}

\* one Digest request goes through websAuthenticate
AuthenticateDigest ==
    /\ result = "none" /\ op = NoOp
    /\ \E r \in ReplayRequests :
        LET out == websAuthenticate(r, sessions, users, autoLogin, secret, now, next) IN
        /\ out.next <= MaxChallenges
        /\ req' = r
        /\ wp' = out.wp
        /\ result' = (IF out.ret THEN "true" ELSE "false")
        /\ log' = out.log
        /\ pre' = [sessions |-> sessions, next |-> next]
        /\ sessions' = out.sessions
        /\ next' = out.next
        /\ UNCHANGED <<users, secret, autoLogin, now, storeVars, op>>

\* the request that was just admitted arrives a second time, byte for byte,
\* at the same or a later clock value
Replay ==
    /\ result = "true" /\ op = NoOp
    /\ \E t \in Times :
        LET out == websAuthenticate(req, sessions, users, autoLogin, secret, t, next) IN
        /\ t >= now
        /\ out.next <= MaxChallenges
        /\ now' = t
        /\ req' = req
        /\ wp' = out.wp
        /\ result' = (IF out.ret THEN "true" ELSE "false")
        /\ log' = out.log
        /\ pre' = [sessions |-> sessions, next |-> next]
        /\ sessions' = out.sessions
        /\ next' = out.next
        /\ UNCHANGED <<users, secret, autoLogin, storeVars, op>>

ReplayNext == AuthenticateDigest \/ Replay \/ Complete \/ Tick
ReplaySpec == Init /\ [][ReplayNext]_vars

(************************ the claims on the resolver ***********************)
Range(f) == {f[x] : x \in DOMAIN f}
Max(N) == IF N = {} THEN 0 ELSE CHOOSE n \in N : \A m \in N : m <= n

\* the names the role graph rs reaches from the names in N, N included
RECURSIVE Reach(_, _)
Reach(rs, N) ==
    LET M == N \cup UNION {Range(rs[r].abilities) : r \in N \cap DOMAIN rs}
    IN IF M = N THEN N ELSE Reach(rs, M)

\* the names user->roles holds
Tokens(rl) == Range(stokRoles(rl, <<>>))
\* the transitive closure of a roles string: the names reached that are no roles
Closure(rs, rl) == Reach(rs, Tokens(rl)) \ DOMAIN rs
\* no role reaches itself
Acyclic(rs) == \A r \in DOMAIN rs : r \notin Reach(rs, Range(rs[r].abilities))
\* a role the roles string reaches reaches itself
CyclicFrom(rs, rl) ==
    \E r \in Reach(rs, Tokens(rl)) \cap DOMAIN rs :
        r \in Reach(rs, Range(rs[r].abilities))

\* the number of roles on the longest path from name to a terminal ability
RECURSIVE Height(_, _)
Height(rs, name) ==
    IF name \notin DOMAIN rs THEN 0
    ELSE 1 + Max({Height(rs, a) : a \in Range(rs[name].abilities)})
NestingDepth(rs, rl) == Max({Height(rs, n) : n \in Tokens(rl)})

\* the run of computeUserAbilities is over; its user and what it left
Computed == compute.pc = "done"
ComputedUser == users[compute.user]

\* C11: after computeUserAbilities(u) on an acyclic role graph whose nesting
\* depth from u.roles is at most 20, u.abilities holds every terminal ability
\* the graph reaches from the roles of u, however many abilities a role has.
C11_ClosureCorrectness ==
    (Computed /\ Acyclic(roles)
              /\ NestingDepth(roles, ComputedUser.roles) <= MaxDepth)
    => Closure(roles, ComputedUser.roles) \subseteq ComputedUser.abilities.keys

\* the call of computeAbilities that frame f stands for was made with a depth
\* of at most 20, the depth its guard lets pass
EnteredWithinBound(f) == f.i >= 1 => f.depth - (f.i - 1) <= MaxDepth

\* C12: computeUserAbilities terminates on every role graph, cyclic ones
\* included: the run ends; no call gets past the guard with a depth above 20,
\* so the calls nest at most 22 deep; a call with a depth above 20 logs the
\* recursion error (and a cycle the user's roles reach always leads to one);
\* and the abilities are names of the graph, a finite set.
C12_ClosureTermination ==
    /\ <>Computed
    /\ [](/\ Len(compute.stack) <= MaxDepth + 2
          /\ \A k \in 1..Len(compute.stack) :
                /\ EnteredWithinBound(compute.stack[k])
                /\ compute.stack[k].depth >= k - 1
          /\ compute.acc.abilities.keys \subseteq
                Reach(roles, UNION {Tokens(users[u].roles) : u \in DOMAIN users})
          /\ (Computed /\ CyclicFrom(roles, ComputedUser.roles))
                => compute.acc.errors # {})
    /\ [][(compute.stack # <<>> /\ Top.i = 0 /\ Top.depth > MaxDepth)
            => /\ Top.role \in compute'.acc.errors
               /\ Len(compute'.stack) < Len(compute.stack)]_vars

\* C12 witness: the run on a -> b, b -> a, terminal with roles=a is over, with
\* the ability terminal and a recursion error
C12_Witness ==
    /\ Computed /\ roles = ScenarioF /\ ComputedUser.roles = S("a")
    /\ ComputedUser.abilities.keys = {S("terminal")}
    /\ compute.acc.errors # {}

\* C13: after computeUserAbilities(u) every token of u.roles that names no
\* defined role is in u.abilities, no member of u.abilities names a defined
\* role, and roles=foo with foo undefined gives exactly {foo}.
C13_SelfInclusion ==
    Computed =>
       /\ \A n \in Tokens(ComputedUser.roles) :
             n \notin DOMAIN roles => n \in ComputedUser.abilities.keys
       /\ ComputedUser.abilities.keys \cap DOMAIN roles = {}
       /\ (ComputedUser.roles = S("foo") /\ S("foo") \notin DOMAIN roles)
             => ComputedUser.abilities.keys = {S("foo")}

\* C13 witness: roles=foo on a table that defines other roles gave {foo}
C13_Witness ==
    /\ Computed /\ roles = Nested /\ ComputedUser.roles = S("foo")
    /\ ComputedUser.abilities = [valid |-> TRUE, keys |-> {S("foo")}]

\* the roles the roles string rl reaches that reach themselves
CycleRoles(rs, rl) ==
    {r \in Reach(rs, Tokens(rl)) \cap DOMAIN rs : r \in Reach(rs, Range(rs[r].abilities))}

\* C22: with a -> b and b -> a, terminal (in either order) and roles=a,
\* computeUserAbilities gives {terminal} and logs a recursion error; and on
\* every role table a terminal ability that is a direct member of a role on a
\* cycle the user's roles reach is in the abilities computed.
C22_CyclicResult ==
    Computed =>
       /\ (roles \in {ScenarioF, ScenarioFRev} /\ ComputedUser.roles = S("a"))
             => /\ ComputedUser.abilities = [valid |-> TRUE, keys |-> {S("terminal")}]
                /\ compute.acc.errors # {}
       /\ \A r \in CycleRoles(roles, ComputedUser.roles) :
             Range(roles[r].abilities) \ DOMAIN roles \subseteq ComputedUser.abilities.keys

(************************* the claims on the store *************************)
\* the abilities I2 asks of a user: the table of the closure of its roles
ClosureOf(u) == [valid |-> TRUE, keys |-> Closure(roles, users[u].roles)]

\* C14: after any sequence of websAddUser, websAddRole, websRemoveRole,
\* websRemoveUser and websSetUserRoles followed by websComputeAllUserAbilities,
\* every user of the store has the transitive closure of its roles over the
\* current role table as its abilities, for every valid handle of the user
\* table and for acyclic role graphs within the depth bound.
C14_GlobalRecompute ==
    (op.name = "websComputeAllUserAbilities" /\ hash.users >= 0 /\ Acyclic(roles))
    => \A u \in DOMAIN users :
          NestingDepth(roles, users[u].roles) <= MaxDepth
          => users[u].abilities = ClosureOf(u)

\* the step is the store operation name, called with a first argument that
\* is (known) or is not (~known) a key of the table
StoreStep(name) == op' # op /\ op'.name = name

\* C16: websAddUser with a name in the store, websAddRole with a name in the
\* role table, websRemoveUser of an unknown user and websRemoveRole of an
\* unknown role return a failure value and leave both tables as they were;
\* an add that succeeds adds one name and leaves every other entry as it was.
C16_ConfigErrorsNoOps ==
    [][/\ (StoreStep("websAddUser") /\ op'.arg[1] \in DOMAIN users)
            => (op'.ret = 0 /\ users' = users /\ roles' = roles)
       /\ (StoreStep("websAddRole") /\ op'.arg[1] \in DOMAIN roles)
            => (op'.ret = 0 /\ users' = users /\ roles' = roles)
       /\ (StoreStep("websRemoveUser") /\ op'.arg[1] \notin DOMAIN users)
            => (op'.ret < 0 /\ users' = users /\ roles' = roles)
       /\ (StoreStep("websRemoveRole") /\ op'.arg[1] \notin DOMAIN roles)
            => (op'.ret < 0 /\ users' = users /\ roles' = roles)
       /\ (StoreStep("websAddUser") /\ op'.ret # 0)
            => /\ op'.arg[1] \notin DOMAIN users
               /\ DOMAIN users' = DOMAIN users \cup {op'.arg[1]}
               /\ \A u \in DOMAIN users : users'[u] = users[u]
       /\ (StoreStep("websAddRole") /\ op'.ret # 0)
            => /\ op'.arg[1] \notin DOMAIN roles
               /\ DOMAIN roles' = DOMAIN roles \cup {op'.arg[1]}
               /\ \A r \in DOMAIN roles : roles'[r] = roles[r]
      ]_vars

\* C16 witness: websAddUser("alice", ...) has failed and alice still has the
\* roles of the configuration, an admin role was refused likewise before
C16_Witness ==
    /\ op = [name |-> "websAddUser",
             arg |-> <<S("alice"), AddPassword(S("alice")),
                       S("user") \o <<Comma, Lit(" ")>> \o S("audit")>>,
             ret |-> 0]
    /\ users[S("alice")].roles = S("admin")
    /\ users[S("alice")].password = LoadedUsers[S("alice")].password
    /\ S("carol") \in DOMAIN users

C24_RemoveRole ==
    [][/\ (StoreStep("websRemoveRole") /\ op'.arg[1] \in DOMAIN roles)
            => /\ op'.ret = 0
               /\ DOMAIN roles' = DOMAIN roles \ {op'.arg[1]}
               /\ \A r \in DOMAIN roles' : roles'[r] = roles[r]
               /\ users' = users
       /\ \A u \in DOMAIN users \cap DOMAIN users' :
             users'[u].abilities # users[u].abilities
             => op'.name \in {"websComputeAllUserAbilities", "websSetUserRoles"}
      ]_vars

\* C24 witness: the role user is removed and bob, whose roles name it, still
\* has the abilities computed while it was defined
C24_Witness ==
    /\ op = [name |-> "websRemoveRole", arg |-> <<S("user")>>, ret |-> 0]
    /\ S("user") \notin DOMAIN roles /\ S("admin") \in DOMAIN roles
    /\ S("bob") \in DOMAIN users /\ users[S("bob")].roles = S("user")
    /\ users[S("bob")].abilities = [valid |-> TRUE, keys |-> {S("view")}]

\* what websWriteAuthFile would write now
NewText == authFileText(users, hash.users, roles, hash.roles, AuthPath)

\* C17: at every point of websWriteAuthFile, a failure of fopen or of rename
\* included, the path holds the complete previous content or the complete new
\* content, and after a save that failed it holds the previous content.
C17_AtomicSave ==
    /\ file.target = file.previous \/ file.target = NewText
    /\ (file.pc = "idle" /\ file.saves > 0 /\ file.ret < 0)
          => file.target = file.previous

(*************** a loader that follows the documented format ***************)
\* the index of the first token x of line at or after i, 0 when there is none
RECURSIVE indexOf(_, _, _)
indexOf(line, x, i) ==
    IF i > Len(line) THEN 0
    ELSE IF line[i] = x THEN i
    ELSE indexOf(line, x, i + 1)

\* the pieces of s between delimiters of D, empty pieces left out
RECURSIVE splitOn(_, _, _)
splitOn(s, D, cur) ==
    IF s = <<>>
    THEN (IF cur = <<>> THEN <<>> ELSE <<cur>>)
    ELSE IF Head(s) \in D
         THEN (IF cur = <<>> THEN <<>> ELSE <<cur>>) \o splitOn(Tail(s), D, <<>>)
         ELSE splitOn(Tail(s), D, Append(cur, Head(s)))

IsBlank(line) == line = <<>>
IsComment(line) == line # <<>> /\ Head(line) \in {Lit("#"), Lit("#   ")}
IsRoleLine(line) ==
    /\ line # <<>> /\ Head(line) = Lit("role name=")
    /\ indexOf(line, Lit(" abilities="), 2) > 2
IsUserLine(line) ==
    /\ line # <<>> /\ Head(line) = Lit("user name=")
    /\ LET pw == indexOf(line, Lit(" password="), 2) IN
       pw > 2 /\ indexOf(line, Lit(" roles="), pw + 1) > pw + 1

\* role name=<rname> abilities=<a1>,<a2>,...,  (trailing commas and extra
\* blanks tolerated): the name and the set of abilities
loadRole(line) ==
    LET ab == indexOf(line, Lit(" abilities="), 2) IN
    <<SubSeq(line, 2, ab - 1),
      Range(splitOn(SubSeq(line, ab + 1, Len(line)),
                    {Comma, Lit(" "), Lit("\t")}, <<>>))>>

\* user name=<uname> password=<pw-or-md5> roles=<r1> <r2> ...: the name, the
\* password and the roles as authored
loadUser(line) ==
    LET pw == indexOf(line, Lit(" password="), 2)
        rl == indexOf(line, Lit(" roles="), pw + 1)
    IN <<SubSeq(line, 2, pw - 1), SubSeq(line, pw + 1, rl - 1),
         SubSeq(line, rl + 1, Len(line))>>

\* the users and the roles of a file, and the lines that are no directive,
\* no comment and not blank
loadAuthFile(text) ==
    [users |-> {loadUser(text[i]) : i \in {j \in DOMAIN text : IsUserLine(text[j])}},
     roles |-> {loadRole(text[i]) : i \in {j \in DOMAIN text : IsRoleLine(text[j])}},
     bad |-> {i \in DOMAIN text :
                 ~(IsBlank(text[i]) \/ IsComment(text[i]) \/ IsRoleLine(text[i])
                     \/ IsUserLine(text[i]))}]

\* the store as the sets the round trip compares
UserTriples == {<<u, users[u].password, users[u].roles>> : u \in DOMAIN users}
RolePairs == {<<r, Range(roles[r].abilities)>> : r \in DOMAIN roles}

\* the file websWriteAuthFile has written completely: the temp file after
\* fclose, the path after rename
Written ==
    IF file.pc \in {"closed", "unlinked"} THEN file.temp
    ELSE IF file.pc = "idle" /\ file.saves > 0 /\ file.ret = 0 THEN file.target
    ELSE NoFile

\* C18: reading the file websWriteAuthFile has written with a loader of the
\* documented line format gives the (name, password, roles) triples of the
\* users and the (name, ability set) pairs of the roles of the store, every
\* line is a directive, a comment or blank, and the role lines all come
\* before the user lines.
C18_RoundTrip ==
    Written # NoFile =>
       /\ loadAuthFile(Written).users = UserTriples
       /\ loadAuthFile(Written).roles = RolePairs
       /\ loadAuthFile(Written).bad = {}
       /\ \A i, j \in DOMAIN Written :
             (IsRoleLine(Written[i]) /\ IsUserLine(Written[j])) => i < j

\* C18 witness: the path holds the file of a store with a user and a role
\* added since the load and a user without roles
C18_Witness ==
    /\ file.pc = "idle" /\ file.ret = 0 /\ file.target = NewText
    /\ file.target # file.previous
    /\ S("carol") \in DOMAIN users /\ S("audit") \in DOMAIN roles
    /\ S("alice") \in DOMAIN users /\ users[S("alice")].roles = <<>>
    /\ loadAuthFile(file.target).users = UserTriples

(************************* the claims on the gate, II ***********************)
\* C15: when websAuthenticate admits a request through a successful verify
\* for user u, the abilities of u are the closure of the roles of u, also
\* when websAddUser created u and nothing recomputed the abilities since.
C15_AbilitiesAtVerify ==
    (Uncachedly /\ result = "true" /\ Called("verify:1"))
    => users[wp.user].abilities = ClosureOf(wp.user)

\* C19: with autoLogin set or on a route without authType websAuthenticate
\* returns true and changes neither the session store nor the request (its
\* credential fields, its response) nor the nonce counter, and calls neither
\* parseAuth, askLogin nor verify.
C19_Bypass ==
    (Handled /\ (autoLogin \/ req.route.authType = NULL))
    => /\ result = "true"
       /\ sessions = pre.sessions /\ next = pre.next
       /\ wp = req
       /\ log = <<>>

\* C19 witness: with autoLogin a Digest request of an unknown user is admitted
C19_Witness ==
    /\ Handled /\ autoLogin /\ req.route = DigestRoute
    /\ Field(req.authDetails, "username") = S("mallory")
    /\ req.cookie \notin DOMAIN pre.sessions
    /\ result = "true"

\* the logout action has run on req
LoggedOut == op.name = "logoutServiceProc"

\* requests on the cookie c: without credentials, and with the credentials
\* of a known and of an unknown user, right and wrong
LogoutProbes(c) ==
    {r \in FailureCandidates : r.cookie = c}
    \cup {NewRequest(r, c, NULL, NULL) : r \in {BasicRoute, DigestRoute}}

\* C20: after the logout action the session of the request holds no user
\* name, the response is 401 for a request of auth type basic or digest and
\* 200 otherwise, and the next websAuthenticate on the session's cookie is
\* not answered from the session: it goes through the challenge or the
\* verify path and admits no request without valid credentials.
C20_Logout ==
    LoggedOut =>
       /\ SessionUsername([req EXCEPT !.cookie = websGetSession(req, sessions)],
                          sessions) = NULL
       /\ \A id \in DOMAIN sessions :
             (req.cookie = id \/ id \notin DOMAIN pre.sessions)
             => sessions[id].username = NULL
       /\ wp.code = IF req.authType \in {S("basic"), S("digest")} THEN 401 ELSE 200
       /\ \A c \in DOMAIN sessions : \A r \in LogoutProbes(c) :
             (c = req.cookie \/ c \notin DOMAIN pre.sessions)
             => LET out == websAuthenticate(r, sessions, users, FALSE, secret,
                                            now, next)
                IN /\ out.log # <<>>
                   /\ out.ret => (out.log[Len(out.log) - 1] = "verify:1"
                                    \/ out.log[Len(out.log)] = "verify:1")

\* C20 witness: alice was logged in on the session, the logout of a Basic
\* request took her name from it
C20_Witness ==
    /\ LoggedOut /\ req.authType = S("basic")
    /\ req.cookie \in DOMAIN pre.sessions
    /\ pre.sessions[req.cookie].username = S("alice")
    /\ sessions[req.cookie].username = NULL
    /\ wp.code = 401

(************************ the claims on the adapters ***********************)
\* the text of a decoded Basic value before its first ':' (all of it when it
\* has none) and the text after it
BasicUser(v) ==
    IF strchrColon(v, 1) = 0 THEN v ELSE SubSeq(v, 1, strchrColon(v, 1) - 1)
BasicPass(v) ==
    IF strchrColon(v, 1) = 0 THEN <<>> ELSE SubSeq(v, strchrColon(v, 1) + 1, Len(v))

\* the request handled went through parseBasicDetails with a value that decodes
BasicParsed ==
    /\ Uncachedly /\ req.route = BasicRoute /\ req.authType = S("basic")
    /\ req.authDetails # NULL /\ websDecode64(req.authDetails) # NULL

\* C25: for every decoded Authorization value parseBasicDetails succeeds and
\* the user name is the text before the first ':' and the password the text
\* after it, also for a value without ':'; with an empty user name the
\* password is the text parsed, encoded is clear and the gate answers 401
\* without calling verify; otherwise verify gets the parsed password.
C25_BasicParsing ==
    BasicParsed =>
       LET v == websDecode64(req.authDetails) IN
       /\ Called("parseAuth:1")
       /\ wp.username = BasicUser(v)
       /\ IF BasicUser(v) = <<>>
          THEN /\ wp.password = BasicPass(v) /\ wp.encoded = 0
               /\ result = "false" /\ wp.code = 401
               /\ ~Called("verify:1") /\ ~Called("verify:0")
          ELSE /\ Called("verify:1") \/ Called("verify:0")
               /\ wp.password = websMD5(Fmt3(BasicUser(v), BIT_REALM, BasicPass(v)))

\* the request handled is a Digest request without a qop field, with a valid
\* nonce at most 300 s old, a known user name and the fields username, realm,
\* nonce, uri and response
DigestNoQopAsked ==
    LET h == req.authDetails IN
    /\ Uncachedly /\ req.route = DigestRoute /\ req.authType = S("digest")
    /\ Field(h, "qop") = NULL
    /\ FreshNonce(Field(h, "nonce")) /\ Field(h, "username") \in DOMAIN users
    /\ Field(h, "realm") # NULL /\ Field(h, "uri") # NULL
    /\ Field(h, "response") # NULL

\* MD5(HA1:nonce:HA2) of the request handled, HA1 the stored password
DigestWithoutQop ==
    LET h == req.authDetails IN
    websMD5(Fmt3(users[Field(h, "username")].password, Field(h, "nonce"),
                 websMD5(Fmt2(req.method, Field(h, "uri")))))

\* C26: a Digest request without qop is not refused by parseDigestDetails,
\* which takes the empty string for qop and expects MD5(HA1:nonce:HA2); a
\* request whose response is that value is admitted.
C26_DigestNoQop ==
    DigestNoQopAsked =>
       /\ Called("parseAuth:1")
       /\ wp.qop = <<>>
       /\ wp.digest = DigestWithoutQop
       /\ Field(req.authDetails, "response") = DigestWithoutQop => result = "true"

(************************ the claims on the gate, III **********************)
\* C28: whenever websAuthenticate admits a request on a route with an
\* authType, autoLogin off, the user name it leaves in the request names a
\* user of the store at that moment, whatever websRemoveUser calls came
\* between the requests.
C28_AdmittedIdentityExists ==
    (Gated /\ result = "true") => wp.username \in DOMAIN users

(*********************** the claims on the nonce counter *******************)
\* the challenge digestLogin writes with the counter at k and the clock at t
ChallengeText(t, k) == digestLogin(IdleRequest, secret, t, k).authResponse
\* the request handled was answered with a Digest challenge
DigestChallenged ==
    Handled /\ Called("askLogin") /\ req.route.askLogin = "digestLogin"
\* the challenges the counter values below k give at the clock values up to now
ChallengesBelow(k) == {ChallengeText(t, j) : t \in {u \in Times : u <= now}, j \in 0..(k - 1)}

\* C27: the counter never decreases; a step of websAuthenticate that emits a
\* Digest challenge increments it by one and puts its old value into the
\* nonce, every other step leaves it alone; so every challenge carries a
\* nonce that no challenge before it carried, the one emitted just before it
\* and those of the same second included.
C27_NonceCounter ==
    /\ [][next' >= next]_vars
    /\ [][IF DigestChallenged'
          THEN /\ next' = next + 1
               /\ wp'.authResponse = ChallengeText(now, next)
               /\ DigestChallenged => wp'.authResponse # wp.authResponse
          ELSE next' = next]_vars
    /\ [](DigestChallenged
            => /\ next = pre.next + 1
               /\ wp.authResponse = ChallengeText(now, pre.next)
               /\ wp.authResponse \notin ChallengesBelow(pre.next))

\* C27 witness: the third challenge of a process whose clock still shows 0,
\* so that the two before it were emitted within the same second
C27_Witness ==
    /\ DigestChallenged /\ now = 0 /\ pre.next = 2 /\ next = 3
    /\ wp.authResponse = ChallengeText(0, 2)
    /\ ChallengesBelow(pre.next) = {ChallengeText(0, 0), ChallengeText(0, 1)}

(************************ the claims on the form login *********************)
\* u and p are the name and the password of a user as the store holds it
Credentials(u, p) ==
    u \in DOMAIN users /\ websMD5(Fmt3(u, BIT_REALM, p)) = users[u].password

\* the login action has handled the request req
LoggedIn == op.name = "loginServiceProc"
FormUser == websGetVar(req, "username", <<>>)
FormPassword == websGetVar(req, "password", <<>>)
\* the session of the request after websSetSessionVar, NoSession when the
\* store could give none
LoginSession == websCreateSession(req, pre.sessions).id

\* C21: the login action takes username and password from the form
\* variables and calls the verifier of the route; with the credentials of a
\* user it writes the user name to the session of the request and redirects
\* to the session variable referrer when there is one and answers 200
\* otherwise; in every other case it leaves the session store as it was and
\* answers 401.
C21_FormLogin ==
    LoggedIn =>
       IF req.route.verify # NoHandler /\ Credentials(FormUser, FormPassword)
       THEN /\ result = "true" /\ log[1] = "verify:1"
            /\ wp.username = FormUser
            /\ LoginSession # NoSession
                  => /\ sessions[LoginSession].username = FormUser
                     /\ \A i \in DOMAIN pre.sessions \ {LoginSession} :
                           sessions[i] = pre.sessions[i]
            /\ IF websGetSessionVarReferrer(req, pre.sessions) # NULL
               THEN /\ wp.code = 302
                    /\ wp.redirect = websGetSessionVarReferrer(req, pre.sessions)
               ELSE wp.code = 200 /\ wp.redirect = NULL
       ELSE /\ result = "false"
            /\ req.route.verify # NoHandler => log = <<"verify:0">>
            /\ sessions = pre.sessions
            /\ wp.code = 401

\* C21 witness: scenario E, referrer=/dashboard and username=alice,
\* password=secret: 302 to /dashboard and the session has username=alice
C21_Witness ==
    /\ LoggedIn /\ FormUser = S("alice") /\ FormPassword = S("secret")
    /\ req.cookie \in DOMAIN pre.sessions
    /\ pre.sessions[req.cookie] = [username |-> NULL, referrer |-> S("/dashboard")]
    /\ wp.code = 302 /\ wp.redirect = S("/dashboard")
    /\ sessions[req.cookie].username = S("alice")

\* C29: websLoginUser(wp, u, p) returns true iff u is in the store and
\* MD5(u:realm:p) is the stored password of u, whatever the context held
\* before the call.
C29_LoginDecision ==
    (op.name = "websLoginUser" /\ req.route.verify # NoHandler)
    => (result = "true" <=> Credentials(op.arg[1], op.arg[2]))

(************************ claims on the lifecycle **************************)
\* no block of secret has been released twice
ReleasedAtMostOnce == \A b \in DOMAIN heap.blocks : heap.blocks[b] <= 1
\* every block of secret has been released once
AllReleasedOnce == \A b \in DOMAIN heap.blocks : heap.blocks[b] = 1
\* the challenge of the request handled was made from a block that was live
SecretLiveWhenRead ==
    DigestChallenged => (heap.secret = 0 \/ heap.blocks[heap.secret] = 0)
\* after websCloseAuth the statics are -1, no user and no role is left in a
\* table, and every block of secret is released
ClosedClean ==
    op.name = "websCloseAuth" =>
        /\ hash = ClosedHandles
        /\ DOMAIN users = {} /\ DOMAIN roles = {}
        /\ heap.lost = {}
        /\ AllReleasedOnce
\* after websOpenAuth the actions login and logout are defined
OpenedRegistered ==
    op.name = "websOpenAuth" => {"login", "logout"} \subseteq heap.actions

\* C30: over every sequence of websOpenAuth(0), websOpenAuth(1) and
\* websCloseAuth, no block of secret is released twice or read after its
\* release, after websCloseAuth both statics are -1, every user and role is
\* destroyed and every block of secret is released once, and after
\* websOpenAuth the actions login and logout are defined.
C30_Lifecycle ==
    /\ ReleasedAtMostOnce
    /\ SecretLiveWhenRead
    /\ ClosedClean
    /\ OpenedRegistered

(********************** claims on the routes' handlers *********************)
\* the route of the request handled was configured with a name other than
\* basic and digest
FormLike == req.route.parseAuth = NoHandler /\ req.route.authType # NULL
\* the gate went into its uncached path past the protocol check
PastProtocol == Uncachedly /\ ~WrongProtocol(req)

\* C31: websAuthenticate calls no handler that is unset; on a route
\* configured as form, or with a name websSetRouteAuth does not know, no
\* header is parsed and the request is refused for its missing credentials
\* or reaches verify.
C31_NoUnsetHandler ==
    /\ Handled => ~NullCall(log)
    /\ (PastProtocol /\ FormLike) =>
          /\ ~Called("parseAuth:0") /\ ~Called("parseAuth:1")
          /\ wp.code = HTTP_CODE_UNAUTHORIZED \/ Called("verify:0") \/ Called("verify:1")

(***************************** claims on replay ****************************)
\* the request handled had no session cookie and was admitted on its Digest
\* header, not on a session
AcceptedOnHeader ==
    /\ result = "true" /\ Called("verify:1")
    /\ req.route = DigestRoute /\ req.cookie = 0
\* the issue time in the nonce of the request handled
IssueTime == parseDigestNonce(wp.nonce).when
\* the step handles the same request a second time, within the lifetime of
\* its nonce
Replayed ==
    /\ AcceptedOnHeader
    /\ req' = req /\ result' # "none"
    /\ IssueTime <= now' /\ now' <= IssueTime + NonceLifetime

\* C32: a Digest header that was accepted on a request without a session
\* cookie is refused when the same request is presented again, unchanged,
\* within the lifetime of its nonce.
C32_ReplayRejected == [][Replayed => result' = "false"]_vars

====
